---- MODULE Spec2Model ----
(***************************************************************************)
(* OctoPrint-Pushover as a state machine: the refactored plugin            *)
(* (plugin.py, events.py, print_state.py) under Spec, its event handlers   *)
(* under SpecHandlers, its command-stream hook under SpecCommands, its     *)
(* threads under SpecThreads and its credential validation under SpecApi;  *)
(* the plugin of __init__.py under SpecLegacy, with its Scheduled,         *)
(* Progress and temperature notifications under SpecSchedule,              *)
(* SpecProgress, SpecPriority and SpecPoll, its ZChange notification under *)
(* SpecZChange and its timer threads under SpecRace; the PrintState object *)
(* under SpecPrintState and the Pushover client (pushover.py) under        *)
(* SpecClient.                                                             *)
(*                                                                         *)
(* Python values that may be None, an int or a numeric string are records  *)
(* [t, v] so that Python's ==, truthiness and int() can be modelled as the *)
(* interpreter computes them ("0" == 0 is False, bool("0") is True).       *)
(***************************************************************************)
EXTENDS Integers, Sequences, FiniteSets

VARIABLES
    settings,     \* the host's settings store: token, user_key, priority, mod
    print_state,  \* the PrintState object of the plugin
    bed_sent,     \* PushoverPlugin.bed_sent
    e1_sent,      \* PushoverPlugin.e1_sent
    timer,        \* PushoverPlugin.timer: TRUE while a RepeatedTimer is active
    pool,         \* tasks submitted to PushoverPlugin.executor, not yet run
    posts,        \* POSTs to /messages.json made since the last PrintStarted
                  \* event was delivered (observation of the service side)
    host_session, \* the host's view: PrintStarted delivered, no PrintDone or
                  \* PrintFailed delivered since (observation of the event source)
    now,          \* the wall clock, in half minutes
    last,         \* the most recent call: what was called, with what, how it ended
    client,       \* a Pushover object: token, user, timeout
    host_progress,\* the host's view: the percentage it last reported for the
                  \* running job (observation of the event source)
    ticks         \* one entry per RepeatedTimer thread the plugin started:
                  \* where it is in temp_check, and the readings it holds
                  \* (followed under SpecRace; elsewhere a poll is one step)

vars == <<settings, print_state, bed_sent, e1_sent, timer, pool, posts,
          host_session, now, last, client, host_progress, ticks>>

(***************************************************************************)
(* Bounds of the model.                                                    *)
(***************************************************************************)
\* settings entries (priority, mod) that may differ from the shipped defaults
MaxOverrides == 1
\* tasks waiting in the executor
MaxPool == 2
\* POSTs recorded per print
MaxPosts == 4
\* largest temperature reading drawn for a poll tick
MaxTemp == 2
\* largest percentage reported to on_print_progress
MaxProgress == 2

(***************************************************************************)
(* Python values.                                                          *)
(***************************************************************************)
PyNone == [t |-> "none", v |-> 0]
PyInt(n) == [t |-> "int", v |-> n]
PyStr(n) == [t |-> "str", v |-> n]

\* a datetime: the wall clock's reading, in half minutes
PyDatetime(n) == [t |-> "datetime", v |-> n]

\* bool(x) for None, an int, a non-empty numeric string, a datetime
Truthy(x) == \/ x.t = "str"
             \/ x.t = "int" /\ x.v # 0
             \/ x.t = "datetime"

\* x == 0 as Python evaluates it: a str never equals an int
PyEqZero(x) == x.t = "int" /\ x.v = 0

\* int(x) of an int or a numeric string
PyIntOf(x) == x.v

(***************************************************************************)
(* Settings.                                                               *)
(***************************************************************************)
EventNames == {"Scheduled", "Progress", "TempReached", "Shutdown", "Startup",
               "PrintStarted", "PrintDone", "PrintFailed", "PrintPaused",
               "Waiting", "FilamentChange", "ZChange", "Error"}

ModNames == {"Scheduled", "Progress"}

PriorityDefaults ==
    [e \in EventNames |->
        CASE e \in {"Scheduled", "Progress", "TempReached", "Shutdown",
                    "PrintStarted", "PrintDone"} -> PyStr(0)
          [] e = "Startup" -> PyNone
          [] e \in {"PrintFailed", "PrintPaused", "Waiting", "FilamentChange",
                    "ZChange"} -> PyInt(0)
          [] OTHER -> PyInt(1)]

ModDefaults == [e \in ModNames |-> PyInt(0)]

\* tokens and user keys are strings; "None" stands for Python's None
DefaultToken == "apWqpdodabxA5Uw11rY4g4gC1Vbbrs"

SettingsDefaults ==
    [token |-> "None", user_key |-> "None",
     priority |-> PriorityDefaults, mod |-> ModDefaults]

TokenValues == {"None", "own"}
UserValues == {"None", "user"}

Overrides(s) ==
    Cardinality({e \in EventNames : s.priority[e] # PriorityDefaults[e]})
    + Cardinality({e \in ModNames : s.mod[e] # ModDefaults[e]})

\* _settings.get(["events", e, "message"]): the template stored under e
Template(e) == e

get_token(s) ==
    IF s.token \in {"None", ""} THEN DefaultToken ELSE s.token

has_own_token(s) == get_token(s) # DefaultToken

\* the pushover property: a client, or None
pushover(s) ==
    IF s.token # "None" /\ s.user_key # "None" THEN "Pushover" ELSE "None"

(***************************************************************************)
(* PrintState.                                                             *)
(***************************************************************************)
PrintStateInit ==
    [is_printing |-> FALSE, last_minute |-> PyInt(0), last_progress |-> 0,
     start_time |-> PyNone, m70_cmd |-> <<>>, first_layer |-> TRUE]

PrintState_on_print_done(ps) ==
    [ps EXCEPT !.is_printing = FALSE, !.last_minute = PyInt(0),
               !.last_progress = 0, !.start_time = PyNone]

\* on_print_failed that resets the timing fields as on_print_done does
PrintState_on_print_failed_resets(ps) ==
    [ps EXCEPT !.is_printing = FALSE, !.last_minute = PyInt(0),
               !.last_progress = 0, !.start_time = PyNone]

PrintState_on_print_failed(ps) == [ps EXCEPT !.is_printing = FALSE]

PrintState_on_print_z_change(ps, payload) ==
    IF payload.new < 2 \/ payload.old = PyNone
    THEN ps
    ELSE [ps EXCEPT !.first_layer = FALSE]

\* int(round(seconds / 60)) of a span counted in half minutes: round() takes
\* a half to the even neighbour
RoundMinutes(halves) ==
    LET q == halves \div 2 IN
    IF halves % 2 = 0 \/ q % 2 = 0 THEN q ELSE q + 1

\* int(round((datetime.now() - start_time).total_seconds() / 60))
minutes_since_started(ps, clock) ==
    IF ps.start_time = PyNone
    THEN PyNone
    ELSE PyInt(RoundMinutes(clock - ps.start_time.v))

\* no Pushover object was constructed yet
NoClient == [token |-> "None", user |-> "None", timeout |-> 0]

Init ==
    /\ settings = SettingsDefaults
    /\ print_state = PrintStateInit
    /\ bed_sent = FALSE
    /\ e1_sent = FALSE
    /\ timer = FALSE
    /\ pool = <<>>
    /\ posts = <<>>
    /\ host_session = FALSE
    /\ now = 0
    /\ last = [op |-> "init", outcome |-> "returned"]
    /\ client = NoClient
    /\ host_progress = 0
    /\ ticks = <<>>

(***************************************************************************)
(* EventHandlers (events.py).  A handler maps the settings, the session    *)
(* state, the executor's queue and the payload to the new session state,   *)
(* the new queue and how the call ended.                                   *)
(***************************************************************************)
Return(ps, pl) == [print_state |-> ps, pool |-> pl, outcome |-> "returned"]
Raise(ps, pl, exc) == [print_state |-> ps, pool |-> pl, outcome |-> exc]

\* the attributes a PushoverPlugin instance has (class body and __init__)
PluginAttributes == {"api_url", "timer", "bed_sent", "e1_sent", "progress",
                     "emoji", "executor", "events", "print_state"}

\* EventHandlers.print_session reads self.plugin.print_session
HasPrintSession == "print_session" \in PluginAttributes

\* Priority(int(priority)): the IntEnum's values
PriorityEnum == {-2, -1, 0, 1, 2}

\* executor.submit(self.pushover.send_message, self, message=..., priority=...)
Submit(ps, pl, message, priority) ==
    IF PyIntOf(priority) \notin PriorityEnum
    THEN Raise(ps, pl, "ValueError")
    ELSE Return(ps, Append(pl, [args |-> <<"EventHandlers">>,
                                message |-> message,
                                priority |-> PyIntOf(priority)]))

\* the priority test every handler makes before it submits
Suppressed(priority) == priority = PyNone \/ PyEqZero(priority)

on_system_startup(s, ps, pl, payload) ==
    IF pushover(s) = "None" THEN Return(ps, pl)
    ELSE IF Suppressed(s.priority["Startup"]) THEN Return(ps, pl)
    ELSE Submit(ps, pl, [tmpl |-> Template("Startup"), arg |-> <<>>],
                s.priority["Startup"])

on_system_shutdown(s, ps, pl, payload) ==
    IF pushover(s) = "None" THEN Return(ps, pl)
    ELSE IF Suppressed(s.priority["Shutdown"]) THEN Return(ps, pl)
    ELSE Submit(ps, pl, [tmpl |-> Template("Shutdown"), arg |-> <<>>],
                s.priority["Shutdown"])

on_system_error(s, ps, pl, payload) ==
    IF ~HasPrintSession THEN Raise(ps, pl, "AttributeError")
    ELSE IF ~ps.is_printing THEN Return(ps, pl)
    ELSE IF pushover(s) = "None" THEN Return(ps, pl)
    ELSE IF Suppressed(s.priority["Error"]) THEN Return(ps, pl)
    ELSE Submit(ps, pl, [tmpl |-> Template("Error"), arg |-> <<payload.error>>],
                s.priority["Error"])

on_print_done(s, ps, pl, payload) ==
    IF ~HasPrintSession THEN Raise(ps, pl, "AttributeError")
    ELSE LET ps2 == PrintState_on_print_done(ps) IN
         IF pushover(s) = "None" THEN Return(ps2, pl)
         ELSE IF Suppressed(s.priority["PrintDone"]) THEN Return(ps2, pl)
         ELSE Submit(ps2, pl, [tmpl |-> Template("PrintDone"),
                               arg |-> <<payload.name, payload.time>>],
                     s.priority["PrintDone"])

on_print_failed(s, ps, pl, payload) ==
    IF ~HasPrintSession THEN Raise(ps, pl, "AttributeError")
    ELSE LET ps2 == PrintState_on_print_failed(ps) IN
         IF pushover(s) = "None" THEN Return(ps2, pl)
         ELSE IF Suppressed(s.priority["PrintFailed"]) THEN Return(ps2, pl)
         ELSE Submit(ps2, pl, [tmpl |-> Template("PrintFailed"),
                               arg |-> <<payload.name>>],
                     s.priority["PrintFailed"])

\* f"{self.print_session.m70_cmd})": the buffer followed by a closing bracket
M70Arg(ps) == ps.m70_cmd \o <<")">>

on_filament_change(s, ps, pl, payload) ==
    IF pushover(s) = "None" THEN Return(ps, pl)
    ELSE IF Suppressed(s.priority["FilamentChange"]) THEN Return(ps, pl)
    ELSE IF ~HasPrintSession THEN Raise(ps, pl, "AttributeError")
    ELSE Submit(ps, pl, [tmpl |-> Template("FilamentChange"), arg |-> M70Arg(ps)],
                s.priority["FilamentChange"])

on_print_paused(s, ps, pl, payload) ==
    IF pushover(s) = "None" THEN Return(ps, pl)
    ELSE IF Suppressed(s.priority["PrintPaused"]) THEN Return(ps, pl)
    ELSE IF ~HasPrintSession THEN Raise(ps, pl, "AttributeError")
    ELSE Submit(ps, pl, [tmpl |-> Template("PrintPaused"), arg |-> M70Arg(ps)],
                s.priority["PrintPaused"])

on_print_waiting(s, ps, pl, payload) == on_print_paused(s, ps, pl, payload)

on_print_z_change(s, ps, pl, payload) ==
    IF ~HasPrintSession THEN Raise(ps, pl, "AttributeError")
    ELSE LET ps2 == PrintState_on_print_z_change(ps, payload) IN
         IF pushover(s) = "None" THEN Return(ps2, pl)
         ELSE IF ~ps2.is_printing THEN Return(ps2, pl)
         ELSE IF Suppressed(s.priority["PrintPaused"]) THEN Return(ps2, pl)
         ELSE Submit(ps2, pl, [tmpl |-> Template("PrintPaused"),
                               arg |-> M70Arg(ps2)],
                     s.priority["PrintPaused"])

\* the keys of on_event's handler table
Handlers == {"Startup", "Shutdown", "Error", "PrintDone", "PrintFailed",
             "FilamentChange", "PrintPaused", "Waiting", "ZChange"}

Handle(event, s, ps, pl, payload) ==
    CASE event = "Startup" -> on_system_startup(s, ps, pl, payload)
      [] event = "Shutdown" -> on_system_shutdown(s, ps, pl, payload)
      [] event = "Error" -> on_system_error(s, ps, pl, payload)
      [] event = "PrintDone" -> on_print_done(s, ps, pl, payload)
      [] event = "PrintFailed" -> on_print_failed(s, ps, pl, payload)
      [] event = "FilamentChange" -> on_filament_change(s, ps, pl, payload)
      [] event = "PrintPaused" -> on_print_paused(s, ps, pl, payload)
      [] event = "Waiting" -> on_print_waiting(s, ps, pl, payload)
      [] event = "ZChange" -> on_print_z_change(s, ps, pl, payload)

\* each entry of the table is a lambda without parameters ...
LambdaParameters == 0
\* ... and on_event calls it with the payload
CallArguments == 1

\* on_event with a fallback for names missing from the table: the session
\* is reset as on completion
on_event_fallback(event, s, ps, pl, payload) ==
    IF event \notin Handlers THEN Return(PrintState_on_print_done(ps), pl)
    ELSE IF CallArguments # LambdaParameters THEN Raise(ps, pl, "TypeError")
    ELSE Handle(event, s, ps, pl, payload)

on_event(event, s, ps, pl, payload) ==
    IF event \notin Handlers THEN Return(ps, pl)
    ELSE IF CallArguments # LambdaParameters THEN Raise(ps, pl, "TypeError")
    ELSE Handle(event, s, ps, pl, payload)

(***************************************************************************)
(* PushoverPlugin (plugin.py).                                             *)
(***************************************************************************)
NoPriority == [t |-> "absent", v |-> 0]

\* event_message that posts again after its POST
event_message_retry(log, cause, tmpl, arg, priority) ==
    Append(Append(log, [cause |-> cause, tmpl |-> tmpl, arg |-> arg,
                        priority |-> priority]),
           [cause |-> cause, tmpl |-> tmpl, arg |-> arg, priority |-> priority])

\* event_message(payload): one POST to /messages.json; a failure of the POST
\* is caught and logged
event_message(log, cause, tmpl, arg, priority) ==
    Append(log, [cause |-> cause, tmpl |-> tmpl, arg |-> arg,
                 priority |-> priority])

\* check_schedule that notifies at every minute, whatever the interval
check_schedule_every_minute(s, ps, log) ==
    IF ~has_own_token(s) THEN [posts |-> log, outcome |-> "returned"]
    ELSE IF ps.is_printing /\ Truthy(s.mod["Scheduled"])
    THEN IF ps.last_minute = PyNone
         THEN [posts |-> log, outcome |-> "TypeError"]
         ELSE IF ps.last_minute.v > 0
         THEN [posts |-> event_message(log, "Scheduled", Template("Scheduled"),
                                       <<ps.last_minute.v>>,
                                       s.priority["Scheduled"]),
               outcome |-> "returned"]
         ELSE [posts |-> log, outcome |-> "returned"]
    ELSE [posts |-> log, outcome |-> "returned"]

check_schedule(s, ps, log) ==
    IF ~has_own_token(s) THEN [posts |-> log, outcome |-> "returned"]
    ELSE IF ps.is_printing /\ Truthy(s.mod["Scheduled"])
    THEN IF ps.last_minute = PyNone
         THEN [posts |-> log, outcome |-> "TypeError"]
         ELSE IF ps.last_minute.v > 0
                 /\ ps.last_minute.v % PyIntOf(s.mod["Scheduled"]) = 0
         THEN [posts |-> event_message(log, "Scheduled", Template("Scheduled"),
                                       <<ps.last_minute.v>>,
                                       s.priority["Scheduled"]),
               outcome |-> "returned"]
         ELSE [posts |-> log, outcome |-> "returned"]
    ELSE [posts |-> log, outcome |-> "returned"]

\* the host marks the print session by the events it delivers
HostSession(event, session) ==
    CASE event = "PrintStarted" -> TRUE
      [] event \in {"PrintDone", "PrintFailed"} -> FALSE
      [] OTHER -> session

\* the events the host delivers, and the payload each comes with
HostEvents == Handlers \cup {"PrintStarted", "Connected"}

NoPayload == [none |-> TRUE]

Payloads(event) ==
    CASE event = "ZChange" ->
            {[old |-> PyNone, new |-> 3], [old |-> PyInt(1), new |-> 1],
             [old |-> PyInt(1), new |-> 3]}
      [] event = "Error" -> {[error |-> "MINTEMP"]}
      [] event = "PrintDone" -> {[name |-> "a.gcode", time |-> "120"]}
      [] event = "PrintFailed" -> {[name |-> "a.gcode"]}
      [] OTHER -> {NoPayload}

OnEvent(event, payload) ==
    /\ Len(pool) < MaxPool
    /\ LET r == on_event(event, settings, print_state, pool, payload) IN
        /\ print_state' = r.print_state
        /\ pool' = r.pool
        /\ last' = [op |-> "on_event", event |-> event, payload |-> payload,
                    submitted |-> Len(r.pool) - Len(pool),
                    outcome |-> r.outcome]
    /\ host_session' = HostSession(event, host_session)
    /\ posts' = IF event = "PrintStarted" THEN <<>> ELSE posts
    /\ UNCHANGED <<ticks, settings, bed_sent, e1_sent, timer, now, client, host_progress>>

restart_timer(s) ==
    has_own_token(s) /\ Truthy(s.priority["TempReached"])

OnAfterStartup ==
    /\ timer' = restart_timer(settings)
    /\ last' = [op |-> "on_after_startup", outcome |-> "returned"]
    /\ UNCHANGED <<ticks, settings, print_state, bed_sent, e1_sent, pool, posts,
                   host_session, now, client, host_progress>>

\* the settings after the host merged the saved data: one entry changed (a
\* credential, the priority of one of events to one of prios or back to its
\* default, an interval to one of mods)
Saved(s, events, prios, mods) ==
    {[s EXCEPT !.token = v] : v \in TokenValues}
    \cup {[s EXCEPT !.user_key = v] : v \in UserValues}
    \cup UNION {{[s EXCEPT !.priority[e] = v] :
                    v \in prios \cup {PriorityDefaults[e]}} : e \in events}
    \cup {[s EXCEPT !.mod[e] = v] : e \in ModNames, v \in mods}

OnSettingsSave(s) ==
    /\ s # settings
    /\ Overrides(s) <= MaxOverrides
    /\ settings' = s
    /\ timer' = restart_timer(s)
    /\ last' = [op |-> "on_settings_save", outcome |-> "returned"]
    /\ UNCHANGED <<ticks, print_state, bed_sent, e1_sent, pool, posts, host_session,
                   now, client, host_progress>>

\* on_print_progress without the comparison with last_progress
on_print_progress_unguarded(s, ps, log, progress) ==
    IF ~has_own_token(s) THEN [print_state |-> ps, posts |-> log]
    ELSE IF /\ ps.is_printing
            /\ Truthy(s.mod["Progress"])
            /\ progress > 0
            /\ progress % PyIntOf(s.mod["Progress"]) = 0
    THEN [print_state |-> [ps EXCEPT !.last_progress = progress],
          posts |-> event_message(log, "Progress", Template("Progress"),
                                  <<progress>>, s.priority["Scheduled"])]
    ELSE [print_state |-> ps, posts |-> log]

on_print_progress(s, ps, log, progress) ==
    IF ~has_own_token(s) THEN [print_state |-> ps, posts |-> log]
    ELSE IF /\ ps.is_printing
            /\ Truthy(s.mod["Progress"])
            /\ progress > 0
            /\ progress % PyIntOf(s.mod["Progress"]) = 0
            /\ ps.last_progress # progress
    THEN [print_state |-> [ps EXCEPT !.last_progress = progress],
          posts |-> event_message(log, "Progress", Template("Progress"),
                                  <<progress>>, s.priority["Scheduled"])]
    ELSE [print_state |-> ps, posts |-> log]

OnPrintProgress(progress) ==
    /\ Len(posts) < MaxPosts
    /\ LET r == on_print_progress(settings, print_state, posts, progress) IN
        /\ print_state' = r.print_state
        /\ posts' = r.posts
    /\ last' = [op |-> "on_print_progress", outcome |-> "returned"]
    /\ UNCHANGED <<ticks, settings, bed_sent, e1_sent, timer, pool, host_session, now,
                   client, host_progress>>

(***************************************************************************)
(* The command-stream hook.  A command is the sequence of its characters.  *)
(***************************************************************************)
IsSpace(c) == c = " "

RECURSIVE LStrip(_)
LStrip(str) ==
    IF str # <<>> /\ IsSpace(Head(str)) THEN LStrip(Tail(str)) ELSE str

RECURSIVE RStrip(_)
RStrip(str) ==
    IF str # <<>> /\ IsSpace(str[Len(str)])
    THEN RStrip(SubSeq(str, 1, Len(str) - 1))
    ELSE str

\* str.strip()
Strip(str) == RStrip(LStrip(str))

\* cmd[n:]
From(cmd, n) == SubSeq(cmd, n + 1, Len(cmd))

\* the commands the communication layer reports, each with the code the host
\* parsed from it ("None": the command has no code)
CmdInputs ==
    {[gcode |-> "G1", cmd |-> <<"G", "1">>],
     [gcode |-> "G28", cmd |-> <<"G", "2", "8">>],
     [gcode |-> "None", cmd |-> <<"@">>],
     [gcode |-> "M600", cmd |-> <<"M", "6", "0", "0">>],
     [gcode |-> "M70", cmd |-> <<"M", "7", "0", " ", "a">>],
     [gcode |-> "M117", cmd |-> <<"M", "1", "1", "7", " ">>]}

\* a capture that appends to the buffer instead of overwriting it
Capture_appending(ps, cmd, gcode) ==
    LET ps1 == IF gcode = "M70"
               THEN [ps EXCEPT !.m70_cmd = ps.m70_cmd \o From(cmd, 3)]
               ELSE ps
    IN IF gcode = "M117" /\ Strip(From(cmd, 4)) # <<>>
       THEN [ps1 EXCEPT !.m70_cmd = ps1.m70_cmd \o From(cmd, 4)]
       ELSE ps1

\* lines 244-248 of sent_gcode: the capture into the command buffer
Capture(ps, cmd, gcode) ==
    LET ps1 == IF gcode = "M70"
               THEN [ps EXCEPT !.m70_cmd = From(cmd, 3)]
               ELSE ps
    IN IF gcode = "M117" /\ Strip(From(cmd, 4)) # <<>>
       THEN [ps1 EXCEPT !.m70_cmd = From(cmd, 4)]
       ELSE ps1

sent_gcode(s, ps, pl, log, clock, cmd, gcode) ==
    LET minutes == minutes_since_started(ps, clock)
        tick == gcode # "None" /\ gcode # "G1" /\ ps.last_minute # minutes
        ps1 == IF tick THEN [ps EXCEPT !.last_minute = minutes] ELSE ps
        sched == IF tick THEN check_schedule(s, ps1, log)
                 ELSE [posts |-> log, outcome |-> "returned"]
    IN IF sched.outcome # "returned"
       THEN [print_state |-> ps1, pool |-> pl, posts |-> sched.posts,
             outcome |-> sched.outcome]
       ELSE LET ev == IF gcode = "M600"
                      THEN on_event("FilamentChange", s, ps1, pl, NoPayload)
                      ELSE Return(ps1, pl)
            IN IF ev.outcome # "returned"
               THEN [print_state |-> ev.print_state, pool |-> ev.pool,
                     posts |-> sched.posts, outcome |-> ev.outcome]
               ELSE [print_state |-> Capture(ev.print_state, cmd, gcode),
                     pool |-> ev.pool, posts |-> sched.posts,
                     outcome |-> "returned"]

SentGcode(c) ==
    /\ Len(pool) < MaxPool
    /\ Len(posts) < MaxPosts
    /\ LET r == sent_gcode(settings, print_state, pool, posts, now, c.cmd,
                           c.gcode)
       IN /\ print_state' = r.print_state
          /\ pool' = r.pool
          /\ posts' = r.posts
          /\ last' = [op |-> "sent_gcode", outcome |-> r.outcome]
    /\ UNCHANGED <<ticks, settings, bed_sent, e1_sent, timer, host_session, now,
                   client, host_progress>>

(***************************************************************************)
(* The temperature poll: one tick of the RepeatedTimer.                    *)
(***************************************************************************)
\* the readings drawn for a tick: the target is off (0) or set
Temps == 0..MaxTemp
Targets == {0, 1}

\* temp_check without the test of the latch flags
temp_check_unlatched(s, bed, e1, log, oper, bed_temp, bed_target, e1_temp, e1_target) ==
    IF ~has_own_token(s) \/ ~oper \/ ~Truthy(s.priority["TempReached"])
    THEN [bed_sent |-> bed, e1_sent |-> e1, posts |-> log]
    ELSE LET bed_hit == bed_target > 0 /\ bed_temp >= bed_target
             log1 == IF bed_hit
                     THEN event_message(log, "bed", Template("TempReached"),
                                        <<>>, NoPriority)
                     ELSE log
             e1_hit == e1_target > 0 /\ e1_temp >= e1_target
             log2 == IF e1_hit
                     THEN event_message(log1, "tool0", Template("TempReached"),
                                        <<>>, NoPriority)
                     ELSE log1
         IN [bed_sent |-> bed \/ bed_hit, e1_sent |-> e1 \/ e1_hit,
             posts |-> log2]

temp_check(s, bed, e1, log, oper, bed_temp, bed_target, e1_temp, e1_target) ==
    IF ~has_own_token(s) \/ ~oper \/ ~Truthy(s.priority["TempReached"])
    THEN [bed_sent |-> bed, e1_sent |-> e1, posts |-> log]
    ELSE LET bed_hit == bed_target > 0 /\ bed_temp >= bed_target /\ bed = FALSE
             log1 == IF bed_hit
                     THEN event_message(log, "bed", Template("TempReached"),
                                        <<>>, NoPriority)
                     ELSE log
             e1_hit == e1_target > 0 /\ e1_temp >= e1_target /\ e1 = FALSE
             log2 == IF e1_hit
                     THEN event_message(log1, "tool0", Template("TempReached"),
                                        <<>>, NoPriority)
                     ELSE log1
         IN [bed_sent |-> bed \/ bed_hit, e1_sent |-> e1 \/ e1_hit,
             posts |-> log2]

TempCheck(operational, bed_temp, bed_target, e1_temp, e1_target) ==
    /\ timer
    /\ Len(posts) + 2 <= MaxPosts
    /\ LET r == temp_check(settings, bed_sent, e1_sent, posts, operational,
                           bed_temp, bed_target, e1_temp, e1_target)
       IN /\ bed_sent' = r.bed_sent
          /\ e1_sent' = r.e1_sent
          /\ posts' = r.posts
          /\ last' = [op |-> "temp_check",
                      bed_reached |-> bed_target > 0 /\ bed_temp >= bed_target,
                      e1_reached |-> e1_target > 0 /\ e1_temp >= e1_target,
                      posted |-> Len(r.posts) - Len(posts),
                      outcome |-> "returned"]
    /\ UNCHANGED <<ticks, settings, print_state, timer, pool, host_session, now,
                   client, host_progress>>

Next ==
    \/ \E e \in HostEvents : \E p \in Payloads(e) : OnEvent(e, p)
    \/ OnAfterStartup
    \/ \E s \in Saved(settings, Handlers, {PyInt(1)}, {}) : OnSettingsSave(s)
    \/ \E n \in 0..MaxProgress : OnPrintProgress(n)
    \/ \E c \in CmdInputs : SentGcode(c)
    \/ \E o \in BOOLEAN : \E bt, et \in Temps : \E bg, eg \in Targets :
          TempCheck(o, bt, bg, et, eg)

Spec == Init /\ [][Next]_vars

(***************************************************************************)
(* The handlers of events.py called one by one, and the executor's worker. *)
(***************************************************************************)
CallHandler(event, payload) ==
    /\ Len(pool) < MaxPool
    /\ LET r == Handle(event, settings, print_state, pool, payload) IN
        /\ print_state' = r.print_state
        /\ pool' = r.pool
        /\ last' = [op |-> "handler", event |-> event, payload |-> payload,
                    submitted |-> Len(r.pool) - Len(pool),
                    outcome |-> r.outcome]
    /\ UNCHANGED <<ticks, settings, bed_sent, e1_sent, timer, posts, host_session, now,
                   client, host_progress>>

\* Python binds the positional arguments of send_message(self, message, ...)
\* first: a task that also passes message= names the parameter twice
send_message_call(task) ==
    IF Len(task.args) > 0 THEN "TypeError" ELSE "returned"

\* a worker that clears the temperature latches after its send
Worker_clears_latches(i) ==
    /\ i \in DOMAIN pool
    /\ Len(posts) < MaxPosts
    /\ pool' = SubSeq(pool, 1, i - 1) \o SubSeq(pool, i + 1, Len(pool))
    /\ posts' = posts
    /\ bed_sent' = FALSE
    /\ e1_sent' = FALSE
    /\ last' = [op |-> "worker", outcome |-> send_message_call(pool[i])]
    /\ UNCHANGED <<ticks, settings, print_state, timer, host_session, now, client,
                   host_progress>>

Worker(i) ==
    /\ i \in DOMAIN pool
    /\ Len(posts) < MaxPosts
    /\ pool' = SubSeq(pool, 1, i - 1) \o SubSeq(pool, i + 1, Len(pool))
    /\ posts' = IF send_message_call(pool[i]) = "returned"
                THEN Append(posts, [cause |-> "task", tmpl |-> pool[i].message.tmpl,
                                    arg |-> pool[i].message.arg,
                                    priority |-> PyInt(pool[i].priority)])
                ELSE posts
    /\ last' = [op |-> "worker", outcome |-> send_message_call(pool[i])]
    /\ UNCHANGED <<ticks, settings, print_state, bed_sent, e1_sent, timer,
                   host_session, now, client, host_progress>>

NextHandlers ==
    \/ \E e \in Handlers : \E p \in Payloads(e) : CallHandler(e, p)
    \/ \E s \in Saved(settings, Handlers,
                       {PyNone, PyInt(0), PyStr(0), PyInt(1), PyStr(1)}, {}) :
          OnSettingsSave(s)
    \/ \E i \in 1..MaxPool : Worker(i)

SpecHandlers == Init /\ [][NextHandlers]_vars

(***************************************************************************)
(* The plugin of __init__.py, the one __plugin_load__ instantiates.  Its   *)
(* session fields live on the plugin object; the record print_state holds  *)
(* them under the names of PrintState (printing is is_printing).  A        *)
(* handler maps the plugin object `self` to the object after the call and  *)
(* the message it returns (None: no notification).                         *)
(***************************************************************************)
\* largest reading of the wall clock, in half minutes
MaxNow == 3
\* POSTs recorded per print while the plugin of __init__.py runs
MaxLegacyPosts == 2

NoMessage == PyNone

Message(event, arg) == [tmpl |-> Template(event), arg |-> arg]

Handled(self, message) == [self |-> self, message |-> message]

\* the settings found in the store at start-up: the shipped defaults, or a
\* user's own credentials with both intervals set to 1
StoredSettings ==
    {SettingsDefaults,
     [SettingsDefaults EXCEPT !.token = "own", !.user_key = "user",
                              !.mod = [e \in ModNames |-> PyInt(1)]]}

LegacyInit ==
    /\ settings \in StoredSettings
    /\ print_state = [PrintStateInit EXCEPT !.first_layer = FALSE]
    /\ bed_sent = FALSE
    /\ e1_sent = FALSE
    /\ timer = FALSE
    /\ pool = <<>>
    /\ posts = <<>>
    /\ host_session = FALSE
    /\ now = 0
    /\ last = [op |-> "init", outcome |-> "returned"]
    /\ client = NoClient
    /\ host_progress = 0
    /\ ticks = <<>>

get_mins_since_started(self, clock) ==
    IF Truthy(self.print_state.start_time)
    THEN PyInt(RoundMinutes(clock - self.print_state.start_time.v))
    ELSE PyNone

PrintDone(s, self, clock, payload) ==
    Handled([self EXCEPT !.print_state.is_printing = FALSE,
                         !.print_state.last_minute = PyInt(0),
                         !.print_state.last_progress = 0,
                         !.print_state.start_time = PyNone],
            Message("PrintDone", <<payload.name, payload.time>>))

\* PrintFailed that also forgets when the print started
PrintFailed_clears_start_time(s, self, clock, payload) ==
    Handled([self EXCEPT !.print_state.is_printing = FALSE,
                         !.print_state.start_time = PyNone],
            Message("PrintFailed", <<payload.name>>))

PrintFailed(s, self, clock, payload) ==
    Handled([self EXCEPT !.print_state.is_printing = FALSE],
            Message("PrintFailed", <<payload.name>>))

FilamentChange(s, self, clock, payload) ==
    Handled(self,
            Message("FilamentChange",
                    IF self.print_state.m70_cmd # <<>>
                    THEN <<"(">> \o Strip(self.print_state.m70_cmd) \o <<")">>
                    ELSE <<>>))

PrintPaused(s, self, clock, payload) ==
    Handled(self, Message("PrintPaused", self.print_state.m70_cmd))

Waiting(s, self, clock, payload) == PrintPaused(s, self, clock, payload)

\* PrintStarted that leaves start_time as it was
PrintStarted_without_start_time(s, self, clock, payload) ==
    Handled([self EXCEPT !.print_state.is_printing = TRUE,
                         !.print_state.m70_cmd = <<>>,
                         !.print_state.first_layer = TRUE,
                         !.bed_sent = FALSE, !.e1_sent = FALSE,
                         !.timer = restart_timer(s)],
            IF ~has_own_token(s) THEN NoMessage ELSE Message("PrintStarted", <<>>))

PrintStarted(s, self, clock, payload) ==
    Handled([self EXCEPT !.print_state.is_printing = TRUE,
                         !.print_state.start_time = PyDatetime(clock),
                         !.print_state.m70_cmd = <<>>,
                         !.print_state.first_layer = TRUE,
                         !.bed_sent = FALSE, !.e1_sent = FALSE,
                         !.timer = restart_timer(s)],
            IF ~has_own_token(s) THEN NoMessage ELSE Message("PrintStarted", <<>>))

\* ZChange without the test of first_layer
ZChange_every_layer(s, self, clock, payload) ==
    IF ~has_own_token(s) THEN Handled(self, NoMessage)
    ELSE IF ~self.print_state.is_printing THEN Handled(self, NoMessage)
    ELSE IF payload.new < 2 \/ payload.old = PyNone THEN Handled(self, NoMessage)
    ELSE Handled([self EXCEPT !.print_state.first_layer = FALSE],
                 Message("ZChange", <<>>))

ZChange(s, self, clock, payload) ==
    IF ~has_own_token(s) THEN Handled(self, NoMessage)
    ELSE IF ~self.print_state.is_printing THEN Handled(self, NoMessage)
    ELSE IF ~self.print_state.first_layer THEN Handled(self, NoMessage)
    ELSE IF payload.new < 2 \/ payload.old = PyNone THEN Handled(self, NoMessage)
    ELSE Handled([self EXCEPT !.print_state.first_layer = FALSE],
                 Message("ZChange", <<>>))

Startup(s, self, clock, payload) ==
    IF ~has_own_token(s) THEN Handled(self, NoMessage)
    ELSE Handled(self, Message("Startup", <<>>))

Shutdown(s, self, clock, payload) ==
    IF ~has_own_token(s) THEN Handled(self, NoMessage)
    ELSE Handled(self, Message("Shutdown", <<>>))

Error(s, self, clock, payload) ==
    IF self.print_state.is_printing
    THEN Handled(self, Message("Error", <<payload.error>>))
    ELSE Handled(self, NoMessage)

\* the methods getattr(self, event) finds for an event name
LegacyHandlers == {"PrintDone", "PrintFailed", "FilamentChange", "PrintPaused",
                   "Waiting", "PrintStarted", "ZChange", "Startup", "Shutdown",
                   "Error"}

LegacyHandle(event, s, self, clock, payload) ==
    CASE event = "PrintDone" -> PrintDone(s, self, clock, payload)
      [] event = "PrintFailed" -> PrintFailed(s, self, clock, payload)
      [] event = "FilamentChange" -> FilamentChange(s, self, clock, payload)
      [] event = "PrintPaused" -> PrintPaused(s, self, clock, payload)
      [] event = "Waiting" -> Waiting(s, self, clock, payload)
      [] event = "PrintStarted" -> PrintStarted(s, self, clock, payload)
      [] event = "ZChange" -> ZChange(s, self, clock, payload)
      [] event = "Startup" -> Startup(s, self, clock, payload)
      [] event = "Shutdown" -> Shutdown(s, self, clock, payload)
      [] event = "Error" -> Error(s, self, clock, payload)

\* on_event of __init__.py: the handler's message, or the stored template
\* when the plugin has no method of that name; then the test of the priority
\* and the synchronous event_message
legacy_on_event(event, s, self, log, clock, payload) ==
    LET h == IF event \in LegacyHandlers
             THEN LegacyHandle(event, s, self, clock, payload)
             ELSE Handled(self, IF event \in EventNames
                                THEN Message(event, <<>>)
                                ELSE NoMessage)
    IN IF h.message = NoMessage THEN [self |-> h.self, posts |-> log]
       ELSE IF event \notin EventNames THEN [self |-> h.self, posts |-> log]
       ELSE IF Truthy(s.priority[event])
       THEN [self |-> h.self,
             posts |-> event_message(log, event, h.message.tmpl, h.message.arg,
                                     s.priority[event])]
       ELSE [self |-> h.self, posts |-> log]

legacy_sent_gcode(s, self, log, clock, cmd, gcode) ==
    LET mss == get_mins_since_started(self, clock)
        tick == gcode # "None" /\ gcode # "G1"
                /\ self.print_state.last_minute # mss
        self1 == IF tick THEN [self EXCEPT !.print_state.last_minute = mss]
                 ELSE self
        sched == IF tick THEN check_schedule(s, self1.print_state, log)
                 ELSE [posts |-> log, outcome |-> "returned"]
        ev == IF gcode = "M600"
              THEN legacy_on_event("FilamentChange", s, self1, sched.posts, clock,
                                   NoPayload)
              ELSE [self |-> self1, posts |-> sched.posts]
    IN [self |-> [ev.self EXCEPT
                     !.print_state = Capture(ev.self.print_state, cmd, gcode)],
        posts |-> ev.posts]

\* the plugin object: the fields the handlers of __init__.py assign
Self == [print_state |-> print_state, bed_sent |-> bed_sent,
         e1_sent |-> e1_sent, timer |-> timer]

\* the events the host delivers: a job starts when none runs and ends when
\* one runs
LegacyHostEvents == LegacyHandlers \cup {"Connected"}

HostDelivers(event) ==
    CASE event = "PrintStarted" -> ~host_session
      [] event \in {"PrintDone", "PrintFailed"} -> host_session
      [] OTHER -> TRUE

LegacyOnEvent(event, payload) ==
    /\ HostDelivers(event)
    /\ LET log == IF event = "PrintStarted" THEN <<>> ELSE posts
           r == legacy_on_event(event, settings, Self, log, now, payload)
       IN /\ Len(r.posts) <= MaxLegacyPosts
          /\ print_state' = r.self.print_state
          /\ bed_sent' = r.self.bed_sent
          /\ e1_sent' = r.self.e1_sent
          /\ timer' = r.self.timer
          /\ posts' = r.posts
          /\ last' = [op |-> "on_event", event |-> event,
                      posted |-> Len(r.posts) - Len(log),
                      outcome |-> "returned"]
    /\ host_session' = HostSession(event, host_session)
    /\ host_progress' = IF event = "PrintStarted" THEN 0 ELSE host_progress
    /\ UNCHANGED <<ticks, settings, pool, now, client>>

\* the host reports the percentage of the running job as it grows
LegacyOnPrintProgress(progress) ==
    /\ host_session
    /\ progress > host_progress
    /\ LET r == on_print_progress(settings, print_state, posts, progress) IN
        /\ Len(r.posts) <= MaxLegacyPosts
        /\ print_state' = r.print_state
        /\ posts' = r.posts
        /\ last' = [op |-> "on_print_progress", event |-> "Progress",
                    posted |-> Len(r.posts) - Len(posts),
                    outcome |-> "returned"]
    /\ host_progress' = progress
    /\ UNCHANGED <<ticks, settings, bed_sent, e1_sent, timer, pool, host_session, now,
                   client>>

LegacySentGcode(c) ==
    /\ LET r == legacy_sent_gcode(settings, Self, posts, now, c.cmd, c.gcode) IN
        /\ Len(r.posts) <= MaxLegacyPosts
        /\ print_state' = r.self.print_state
        /\ bed_sent' = r.self.bed_sent
        /\ e1_sent' = r.self.e1_sent
        /\ timer' = r.self.timer
        /\ posts' = r.posts
        /\ last' = [op |-> "sent_gcode", event |-> "gcode",
                    posted |-> Len(r.posts) - Len(posts),
                    outcome |-> "returned"]
    /\ UNCHANGED <<ticks, settings, pool, host_session, now, client, host_progress>>

\* half a minute passes
Tick ==
    /\ now < MaxNow
    /\ now' = now + 1
    /\ last' = [op |-> "tick", outcome |-> "returned"]
    /\ UNCHANGED <<ticks, settings, print_state, bed_sent, e1_sent, timer, pool, posts,
                   host_session, client, host_progress>>

NextLegacy ==
    \/ \E e \in LegacyHostEvents : \E p \in Payloads(e) : LegacyOnEvent(e, p)
    \/ \E n \in 1..MaxProgress : LegacyOnPrintProgress(n)
    \/ \E c \in CmdInputs : LegacySentGcode(c)
    \/ Tick

SpecLegacy == LegacyInit /\ [][NextLegacy]_vars

(***************************************************************************)
(* The Scheduled notification of __init__.py: a print runs, the clock      *)
(* advances and the communication layer reports the commands it sent.      *)
(***************************************************************************)
\* the settings found in the store: the shipped defaults, or a user's own
\* credentials with the Scheduled interval off, 1 or 2 minutes (stored as a
\* number or as a numeric string)
ScheduleSettings ==
    {SettingsDefaults}
    \cup {[SettingsDefaults EXCEPT !.token = "own", !.user_key = "user",
                                   !.mod["Scheduled"] = n] :
             n \in {PyInt(0), PyInt(1), PyInt(2), PyStr(2)}}

InitSchedule ==
    /\ settings \in ScheduleSettings
    /\ print_state = [PrintStateInit EXCEPT !.first_layer = FALSE]
    /\ bed_sent = FALSE
    /\ e1_sent = FALSE
    /\ timer = FALSE
    /\ pool = <<>>
    /\ posts = <<>>
    /\ host_session = FALSE
    /\ now = 0
    /\ last = [op |-> "init", outcome |-> "returned"]
    /\ client = NoClient
    /\ host_progress = 0
    /\ ticks = <<>>

\* sent_gcode is called with a command; the code, the minutes the call read
\* and the counter before the call are kept for comparison
ScheduleSentGcode(c) ==
    /\ LET r == legacy_sent_gcode(settings, Self, posts, now, c.cmd, c.gcode) IN
        /\ Len(r.posts) <= MaxPosts
        /\ print_state' = r.self.print_state
        /\ bed_sent' = r.self.bed_sent
        /\ e1_sent' = r.self.e1_sent
        /\ timer' = r.self.timer
        /\ posts' = r.posts
        /\ last' = [op |-> "sent_gcode", event |-> "gcode", gcode |-> c.gcode,
                    minutes |-> get_mins_since_started(Self, now),
                    before |-> print_state.last_minute,
                    scheduled |-> Cardinality({i \in DOMAIN r.posts :
                                                  r.posts[i].cause = "Scheduled"})
                                  - Cardinality({i \in DOMAIN posts :
                                                    posts[i].cause = "Scheduled"}),
                    posted |-> Len(r.posts) - Len(posts),
                    outcome |-> "returned"]
    /\ UNCHANGED <<ticks, settings, pool, host_session, now, client, host_progress>>

NextSchedule ==
    \/ \E e \in {"PrintStarted", "PrintDone", "PrintFailed"} :
          \E p \in Payloads(e) : LegacyOnEvent(e, p)
    \/ \E c \in CmdInputs : ScheduleSentGcode(c)
    \/ Tick

SpecSchedule == InitSchedule /\ [][NextSchedule]_vars

(***************************************************************************)
(* The temperature poll of __init__.py while prints start and end.  Each   *)
(* POST the poll makes is answered by the service or fails; event_message  *)
(* catches the failure, so the answer is seen on the service side only.    *)
(***************************************************************************)
Sensors == {"bed", "tool0"}

\* what became of a POST: the service took it, or requests.post raised
Answers == {"sent", "failed"}

\* the POSTs of log after the first `from`, each with what became of it
Observed(log, from, answers) ==
    [i \in DOMAIN log |->
        IF i <= from THEN log[i]
        ELSE [cause |-> log[i].cause, tmpl |-> log[i].tmpl, arg |-> log[i].arg,
              priority |-> log[i].priority, answer |-> answers[log[i].cause]]]

PollTick(operational, bed_temp, bed_target, e1_temp, e1_target, answers) ==
    /\ timer
    /\ LET r == temp_check(settings, bed_sent, e1_sent, posts, operational,
                           bed_temp, bed_target, e1_temp, e1_target)
       IN /\ Len(r.posts) <= MaxPosts
          /\ bed_sent' = r.bed_sent
          /\ e1_sent' = r.e1_sent
          /\ posts' = Observed(r.posts, Len(posts), answers)
          /\ last' = [op |-> "temp_check", event |-> "TempReached",
                      bed_reached |-> bed_target > 0 /\ bed_temp >= bed_target,
                      e1_reached |-> e1_target > 0 /\ e1_temp >= e1_target,
                      posted |-> Len(r.posts) - Len(posts),
                      outcome |-> "returned"]
    /\ UNCHANGED <<ticks, settings, print_state, timer, pool, host_session, now,
                   client, host_progress>>

NextPoll ==
    \/ \E e \in {"PrintStarted", "PrintDone", "PrintFailed"} :
          \E p \in Payloads(e) : LegacyOnEvent(e, p)
    \/ \E o \in BOOLEAN : \E bt, et \in Temps : \E bg, eg \in Targets :
          \E a \in [Sensors -> Answers] : PollTick(o, bt, bg, et, eg, a)

SpecPoll == LegacyInit /\ [][NextPoll]_vars

(***************************************************************************)
(* The Progress notification of __init__.py under any sequence of reports: *)
(* on_print_progress is called with percentages in any order.              *)
(***************************************************************************)
AnyProgress(progress) ==
    /\ LET r == on_print_progress(settings, print_state, posts, progress) IN
        /\ Len(r.posts) <= MaxPosts
        /\ print_state' = r.print_state
        /\ posts' = r.posts
        /\ last' = [op |-> "on_print_progress", event |-> "Progress",
                    progress |-> progress,
                    before |-> print_state.last_progress,
                    posted |-> Len(r.posts) - Len(posts),
                    outcome |-> "returned"]
    /\ host_progress' = progress
    /\ UNCHANGED <<ticks, settings, bed_sent, e1_sent, timer, pool, host_session, now,
                   client>>

NextProgress ==
    \/ \E e \in {"PrintStarted", "PrintDone", "PrintFailed"} :
          \E p \in Payloads(e) : LegacyOnEvent(e, p)
    \/ \E n \in 0..MaxProgress : AnyProgress(n)
    \/ Tick

SpecProgress == LegacyInit /\ [][NextProgress]_vars

(***************************************************************************)
(* The Progress notification of __init__.py when the stored priorities of  *)
(* Progress and Scheduled are chosen independently of each other.          *)
(***************************************************************************)
\* the priorities the settings page stores: the shipped "0", or 1 (high)
StoredPriorities == {PyStr(0), PyInt(1)}

PrioritySettings ==
    {[SettingsDefaults EXCEPT !.token = "own", !.user_key = "user",
                              !.mod["Progress"] = PyInt(1),
                              !.priority["Progress"] = p,
                              !.priority["Scheduled"] = q] :
        p, q \in StoredPriorities}

InitPriority ==
    /\ settings \in PrioritySettings
    /\ print_state = [PrintStateInit EXCEPT !.first_layer = FALSE]
    /\ bed_sent = FALSE
    /\ e1_sent = FALSE
    /\ timer = FALSE
    /\ pool = <<>>
    /\ posts = <<>>
    /\ host_session = FALSE
    /\ now = 0
    /\ last = [op |-> "init", outcome |-> "returned"]
    /\ client = NoClient
    /\ host_progress = 0
    /\ ticks = <<>>

SpecPriority == InitPriority /\ [][NextProgress]_vars

(***************************************************************************)
(* The ZChange notification of __init__.py: print events and height        *)
(* changes are delivered to on_event in any order.                         *)
(***************************************************************************)
\* the settings found in the store: the shipped defaults, or a user's own
\* credentials with the ZChange priority left at 0 or set to 1
ZChangeSettings ==
    {SettingsDefaults} \cup
    {[SettingsDefaults EXCEPT !.token = "own", !.user_key = "user",
                              !.priority["ZChange"] = p] :
        p \in {PyInt(0), PyInt(1)}}

InitZChange ==
    /\ settings \in ZChangeSettings
    /\ print_state = [PrintStateInit EXCEPT !.first_layer = FALSE]
    /\ bed_sent = FALSE
    /\ e1_sent = FALSE
    /\ timer = FALSE
    /\ pool = <<>>
    /\ posts = <<>>
    /\ host_session = FALSE
    /\ now = 0
    /\ last = [op |-> "init", outcome |-> "returned"]
    /\ client = NoClient
    /\ host_progress = 0
    /\ ticks = <<>>

ZChangeEvents == {"PrintStarted", "PrintDone", "PrintFailed", "ZChange"}

\* on_event(event, payload), whatever the plugin's state; posts holds the
\* notifications sent since the last PrintStarted
AnyEvent(event, payload) ==
    /\ LET log == IF event = "PrintStarted" THEN <<>> ELSE posts
           h == LegacyHandle(event, settings, Self, now, payload)
           r == legacy_on_event(event, settings, Self, log, now, payload)
       IN /\ Len(r.posts) <= MaxPosts
          /\ print_state' = r.self.print_state
          /\ bed_sent' = r.self.bed_sent
          /\ e1_sent' = r.self.e1_sent
          /\ timer' = r.self.timer
          /\ posts' = r.posts
          /\ last' = [op |-> "on_event", event |-> event, payload |-> payload,
                      printing |-> print_state.is_printing,
                      first_layer |-> print_state.first_layer,
                      produced |-> h.message # NoMessage,
                      posted |-> Len(r.posts) - Len(log),
                      outcome |-> "returned"]
    /\ host_session' = HostSession(event, host_session)
    /\ host_progress' = IF event = "PrintStarted" THEN 0 ELSE host_progress
    /\ UNCHANGED <<ticks, settings, pool, now, client>>

NextZChange ==
    \E e \in ZChangeEvents : \E p \in Payloads(e) : AnyEvent(e, p)

SpecZChange == InitZChange /\ [][NextZChange]_vars

(***************************************************************************)
(* The temperature poll of __init__.py statement by statement.  Each       *)
(* RepeatedTimer runs temp_check on a thread of its own; restart_timer     *)
(* cancels the timer, which stops its further polls but not the poll that  *)
(* is running, and starts a new timer that polls at once (run_first).      *)
(***************************************************************************)
MaxTimers == 2

\* a timer thread: pc is where it stands, cancelled whether its timer was
\* cancelled, bed_reached and e1_reached what the readings it took say
NewTimer ==
    [pc |-> "start", cancelled |-> FALSE, bed_reached |-> FALSE,
     e1_reached |-> FALSE]

\* RepeatedTimer.cancel(): a thread that is not inside temp_check ends, one
\* that is inside finishes the poll first
cancel(th) ==
    IF th.pc \in {"start", "wait"} THEN [th EXCEPT !.pc = "done", !.cancelled = TRUE]
    ELSE [th EXCEPT !.cancelled = TRUE]

\* the threads after restart_timer(): the active timer is the last one started
restart_timer_threads(s, tk, active) ==
    LET old == IF active /\ tk # <<>>
               THEN [tk EXCEPT ![Len(tk)] = cancel(tk[Len(tk)])]
               ELSE tk
    IN IF restart_timer(s) THEN Append(old, NewTimer) ELSE old

\* where a thread goes when temp_check returns
Returned(th) == IF th.cancelled THEN "done" ELSE "wait"

\* on_after_startup or on_settings_save (with the values already stored), as
\* far as the timer goes: both end with restart_timer()
RaceRestart(op) ==
    /\ Len(ticks) < MaxTimers
    /\ timer' = restart_timer(settings)
    /\ ticks' = restart_timer_threads(settings, ticks, timer)
    /\ last' = [op |-> op, outcome |-> "returned"]
    /\ UNCHANGED <<settings, print_state, bed_sent, e1_sent, pool, posts,
                   host_session, now, client, host_progress>>

\* on_event for the start and the end of a job; PrintStarted ends with
\* restart_timer()
RaceEvent(event, payload) ==
    /\ HostDelivers(event)
    /\ event = "PrintStarted" => Len(ticks) < MaxTimers
    /\ LET log == IF event = "PrintStarted" THEN <<>> ELSE posts
           r == legacy_on_event(event, settings, Self, log, now, payload)
       IN /\ Len(r.posts) <= MaxPosts
          /\ print_state' = r.self.print_state
          /\ bed_sent' = r.self.bed_sent
          /\ e1_sent' = r.self.e1_sent
          /\ timer' = r.self.timer
          /\ posts' = r.posts
          /\ last' = [op |-> "on_event", event |-> event,
                      posted |-> Len(r.posts) - Len(log),
                      outcome |-> "returned"]
    /\ ticks' = IF event = "PrintStarted"
                THEN restart_timer_threads(settings, ticks, timer)
                ELSE ticks
    /\ host_session' = HostSession(event, host_session)
    /\ host_progress' = IF event = "PrintStarted" THEN 0 ELSE host_progress
    /\ UNCHANGED <<settings, pool, now, client>>

\* temp_check up to the readings: the three early tests, then the locals
PollBegin(i, operational, bed_temp, bed_target, e1_temp, e1_target) ==
    /\ ticks[i].pc = "start"
    /\ ticks' =
         IF \/ ~has_own_token(settings)
            \/ ~operational
            \/ ~Truthy(settings.priority["TempReached"])
         THEN [ticks EXCEPT ![i].pc = Returned(ticks[i])]
         ELSE [ticks EXCEPT
                  ![i].pc = "test_bed",
                  ![i].bed_reached = bed_target > 0 /\ bed_temp >= bed_target,
                  ![i].e1_reached = e1_target > 0 /\ e1_temp >= e1_target]
    /\ last' = [op |-> "temp_check", step |-> "begin", thread |-> i,
                outcome |-> "returned"]
    /\ UNCHANGED <<settings, print_state, bed_sent, e1_sent, timer, pool, posts,
                   host_session, now, client, host_progress>>

\* if bed_target > 0 and bed_temp >= bed_target and self.bed_sent is False:
PollTestBed(i) ==
    /\ ticks[i].pc = "test_bed"
    /\ ticks' = [ticks EXCEPT ![i].pc =
                    IF ticks[i].bed_reached /\ bed_sent = FALSE
                    THEN "set_bed" ELSE "test_e1"]
    /\ last' = [op |-> "temp_check", step |-> "test_bed", thread |-> i,
                outcome |-> "returned"]
    /\ UNCHANGED <<settings, print_state, bed_sent, e1_sent, timer, pool, posts,
                   host_session, now, client, host_progress>>

\* self.bed_sent = True, then event_message
PollSetBed(i) ==
    /\ ticks[i].pc = "set_bed"
    /\ Len(posts) < MaxPosts
    /\ bed_sent' = TRUE
    /\ posts' = event_message(posts, "bed", Template("TempReached"), <<>>,
                              NoPriority)
    /\ ticks' = [ticks EXCEPT ![i].pc = "test_e1"]
    /\ last' = [op |-> "temp_check", step |-> "set_bed", thread |-> i,
                outcome |-> "returned"]
    /\ UNCHANGED <<settings, print_state, e1_sent, timer, pool, host_session,
                   now, client, host_progress>>

\* if e1_target > 0 and e1_temp >= e1_target and self.e1_sent is False:
PollTestE1(i) ==
    /\ ticks[i].pc = "test_e1"
    /\ ticks' = [ticks EXCEPT ![i].pc =
                    IF ticks[i].e1_reached /\ e1_sent = FALSE
                    THEN "set_e1" ELSE Returned(ticks[i])]
    /\ last' = [op |-> "temp_check", step |-> "test_e1", thread |-> i,
                outcome |-> "returned"]
    /\ UNCHANGED <<settings, print_state, bed_sent, e1_sent, timer, pool, posts,
                   host_session, now, client, host_progress>>

\* self.e1_sent = True, then event_message; temp_check returns
PollSetE1(i) ==
    /\ ticks[i].pc = "set_e1"
    /\ Len(posts) < MaxPosts
    /\ e1_sent' = TRUE
    /\ posts' = event_message(posts, "tool0", Template("TempReached"), <<>>,
                              NoPriority)
    /\ ticks' = [ticks EXCEPT ![i].pc = Returned(ticks[i])]
    /\ last' = [op |-> "temp_check", step |-> "set_e1", thread |-> i,
                outcome |-> "returned"]
    /\ UNCHANGED <<settings, print_state, bed_sent, timer, pool, host_session,
                   now, client, host_progress>>

\* the interval of a timer that was not cancelled has passed
PollWake(i) ==
    /\ ticks[i].pc = "wait"
    /\ ticks' = [ticks EXCEPT ![i].pc = "start"]
    /\ last' = [op |-> "temp_check", step |-> "wake", thread |-> i,
                outcome |-> "returned"]
    /\ UNCHANGED <<settings, print_state, bed_sent, e1_sent, timer, pool, posts,
                   host_session, now, client, host_progress>>

NextRace ==
    \/ \E op \in {"on_after_startup", "on_settings_save"} : RaceRestart(op)
    \/ \E e \in {"PrintStarted", "PrintDone"} :
          \E p \in Payloads(e) : RaceEvent(e, p)
    \/ \E i \in DOMAIN ticks : \E o \in BOOLEAN :
          \E bt, et \in Temps : \E bg, eg \in Targets :
             PollBegin(i, o, bt, bg, et, eg)
    \/ \E i \in DOMAIN ticks : PollTestBed(i)
    \/ \E i \in DOMAIN ticks : PollSetBed(i)
    \/ \E i \in DOMAIN ticks : PollTestE1(i)
    \/ \E i \in DOMAIN ticks : PollSetE1(i)
    \/ \E i \in DOMAIN ticks : PollWake(i)

SpecRace == LegacyInit /\ [][NextRace]_vars

(***************************************************************************)
(* PrintState as an object of its own: any values of its fields, and its   *)
(* methods called one by one.                                              *)
(***************************************************************************)
PrintStates ==
    [is_printing : BOOLEAN,
     last_minute : {PyNone} \cup {PyInt(n) : n \in 0..MaxNow},
     last_progress : 0..MaxProgress,
     start_time : {PyNone} \cup {PyDatetime(n) : n \in 0..MaxNow},
     m70_cmd : {<<>>, <<" ", "a">>},
     first_layer : BOOLEAN]

InitPrintState ==
    /\ settings = SettingsDefaults
    /\ print_state \in PrintStates
    /\ bed_sent = FALSE
    /\ e1_sent = FALSE
    /\ timer = FALSE
    /\ pool = <<>>
    /\ posts = <<>>
    /\ host_session = FALSE
    /\ now = 0
    /\ last = [op |-> "init", outcome |-> "returned"]
    /\ client = NoClient
    /\ host_progress = 0
    /\ ticks = <<>>

CallPrintState(op, ps) ==
    /\ print_state' = ps
    /\ last' = [op |-> op, outcome |-> "returned"]
    /\ UNCHANGED <<ticks, settings, bed_sent, e1_sent, timer, pool, posts,
                   host_session, now, client, host_progress>>

CallOnPrintDone ==
    CallPrintState("PrintState.on_print_done",
                   PrintState_on_print_done(print_state))

CallOnPrintFailed ==
    CallPrintState("PrintState.on_print_failed",
                   PrintState_on_print_failed(print_state))

CallOnPrintZChange(payload) ==
    CallPrintState("PrintState.on_print_z_change",
                   PrintState_on_print_z_change(print_state, payload))

NextPrintState ==
    \/ CallOnPrintDone
    \/ CallOnPrintFailed
    \/ \E p \in Payloads("ZChange") : CallOnPrintZChange(p)

SpecPrintState == InitPrintState /\ [][NextPrintState]_vars

(***************************************************************************)
(* The Pushover client (pushover.py).  A response is what requests.post    *)
(* gives back: the connection failed, or a status and a body.  A body is   *)
(* text that is not JSON, a JSON value that is not an object, or a JSON    *)
(* object with some of the fields the client reads.                        *)
(***************************************************************************)
BASE_URL == "https://api.pushover.net/1"

\* Pushover.__init__: timeout defaults to 10
DefaultTimeout == 10

Pushover_init(token, user) ==
    [token |-> token, user |-> user, timeout |-> DefaultTimeout]

\* the status codes drawn for a response
StatusCodes == {200, 201, 301, 399, 400, 401, 499, 500}

JsonKeys == {"status", "request", "receipt"}

JsonValues(k) ==
    CASE k = "status" -> {PyStr(1), PyInt(1), PyStr(0), PyInt(0)}
      [] k = "request" -> {PyStr(7)}
      [] k = "receipt" -> {PyStr(9)}

JsonObjects ==
    UNION {{f \in [D -> UNION {JsonValues(k) : k \in JsonKeys}] :
               \A k \in D : f[k] \in JsonValues(k)} : D \in SUBSET JsonKeys}

Bodies ==
    {[kind |-> "text", fields |-> <<>>], [kind |-> "array", fields |-> <<>>]}
    \cup {[kind |-> "object", fields |-> f] : f \in JsonObjects}

Responses ==
    {[kind |-> "refused", status |-> 0, body |-> [kind |-> "text", fields |-> <<>>]]}
    \cup {[kind |-> "http", status |-> c, body |-> b] : c \in StatusCodes, b \in Bodies}

\* _request_body(data): the data with the client's token and user added
request_body(c, data) ==
    [k \in DOMAIN data \cup {"token", "user"} |->
        CASE k = "token" -> c.token
          [] k = "user" -> c.user
          [] OTHER -> data[k]]

NoResult == [none |-> TRUE]

\* send_message that always writes the priority field
send_message_with_priority(c, message, priority, response) ==
    [url |-> <<BASE_URL, "/messages.json">>,
     data |-> request_body(c, [k \in {"message", "priority"} |->
                                  IF k = "message" THEN message ELSE priority]),
     outcome |-> "request_fail", result |-> NoResult]

\* send_message(message, priority=priority): the other parameters keep their
\* default None and add no field
send_message(c, message, priority, response) ==
    LET body0 == request_body(c, [k \in {"message"} |-> message])
        data == IF priority # 0
                THEN [k \in DOMAIN body0 \cup {"priority"} |->
                         IF k = "priority" THEN priority ELSE body0[k]]
                ELSE body0
        call(outcome, result) ==
            [url |-> <<BASE_URL, "/messages.json">>, data |-> data,
             outcome |-> outcome, result |-> result]
        json == response.body
    IN IF response.kind = "refused" THEN call("request_fail", NoResult)
       ELSE IF response.status \in 400..499 THEN call("request_reject", NoResult)
       ELSE IF response.status # 200 THEN call("status_code", NoResult)
       ELSE IF json.kind = "text" THEN call("parse_fail", NoResult)
       ELSE IF json.kind # "object" THEN call("AttributeError", NoResult)
       ELSE IF "request" \notin DOMAIN json.fields THEN call("parse_fail", NoResult)
       ELSE call("returned",
                 [receipt |-> IF "receipt" \in DOMAIN json.fields
                              THEN json.fields["receipt"] ELSE PyNone,
                  request |-> json.fields["request"]])

\* validate that reads the status as a number
validate_numeric(c, response) ==
    [url |-> <<BASE_URL, "/validate.json">>,
     data |-> request_body(c, <<>>),
     outcome |-> "returned",
     result |-> /\ response.body.kind = "object"
                /\ "status" \in DOMAIN response.body.fields
                /\ PyIntOf(response.body.fields["status"]) = 1]

validate(c, response) ==
    LET call(outcome, result) ==
            [url |-> <<BASE_URL, "/validate.json">>,
             data |-> request_body(c, <<>>),
             outcome |-> outcome, result |-> result]
        json == response.body
    IN IF response.kind = "refused" THEN call("request_fail", NoResult)
       ELSE IF response.status # 200 THEN call("status_code", NoResult)
       ELSE IF json.kind = "text" THEN call("parse_fail", NoResult)
       ELSE IF json.kind # "object" THEN call("TypeError", NoResult)
       ELSE IF "status" \notin DOMAIN json.fields THEN call("parse_fail", NoResult)
       ELSE call("returned", json.fields["status"] = PyStr(1))

\* the client of a user who configured a token and a user key
InitClient ==
    /\ settings = [SettingsDefaults EXCEPT !.token = "own", !.user_key = "user"]
    /\ print_state = PrintStateInit
    /\ bed_sent = FALSE
    /\ e1_sent = FALSE
    /\ timer = FALSE
    /\ pool = <<>>
    /\ posts = <<>>
    /\ host_session = FALSE
    /\ now = 0
    /\ last = [op |-> "init", outcome |-> "returned"]
    /\ client = Pushover_init(settings.token, settings.user_key)
    /\ host_progress = 0
    /\ ticks = <<>>

SendMessage(priority, response) ==
    /\ LET r == send_message(client, Template("Startup"), priority, response) IN
        last' = [op |-> "send_message", priority |-> priority,
                 response |-> response, url |-> r.url, data |-> r.data,
                 outcome |-> r.outcome, result |-> r.result]
    /\ UNCHANGED <<ticks, settings, print_state, bed_sent, e1_sent, timer, pool, posts,
                   host_session, now, client, host_progress>>

Validate(response) ==
    /\ LET r == validate(client, response) IN
        last' = [op |-> "validate", response |-> response, url |-> r.url,
                 data |-> r.data, outcome |-> r.outcome, result |-> r.result]
    /\ UNCHANGED <<ticks, settings, print_state, bed_sent, e1_sent, timer, pool, posts,
                   host_session, now, client, host_progress>>

NextClient ==
    \/ \E p \in PriorityEnum : \E r \in Responses : SendMessage(p, r)
    \/ \E r \in Responses : Validate(r)

SpecClient == InitClient /\ [][NextClient]_vars

(***************************************************************************)
(* Credential validation of plugin.py: validate_pushover and its two       *)
(* synchronous callers, on_after_startup and the "test" API command.       *)
(***************************************************************************)
\* `not x` for a key that is None or a string
Missing(key) == key \in {"None", ""}

\* validate_pushover(api_key, user_key), given what requests.post gives back:
\* every failure behind the two key tests is raised again as a ValueError
validate_pushover(api_key, user_key, response) ==
    LET json == response.body IN
    IF Missing(api_key) THEN [outcome |-> "ValueError", result |-> FALSE]
    ELSE IF Missing(user_key) THEN [outcome |-> "ValueError", result |-> FALSE]
    ELSE IF response.kind = "refused"
    THEN [outcome |-> "ValueError", result |-> FALSE]
    ELSE IF response.status # 200
    THEN [outcome |-> "ValueError", result |-> FALSE]
    ELSE IF json.kind # "object"
    THEN [outcome |-> "ValueError", result |-> FALSE]
    ELSE IF "status" \notin DOMAIN json.fields
    THEN [outcome |-> "ValueError", result |-> FALSE]
    ELSE [outcome |-> "returned", result |-> json.fields["status"] = PyInt(1)]

\* on_after_startup without the try around the validation
on_after_startup_uncaught(s, response) ==
    LET v == validate_pushover(get_token(s), s.user_key, response) IN
    IF v.outcome # "returned"
    THEN [validation |-> v.outcome, restarted |-> FALSE, outcome |-> v.outcome]
    ELSE [validation |-> v.outcome, restarted |-> TRUE, outcome |-> "returned"]

\* on_after_startup: the validation inside try/except Exception, then
\* restart_timer
on_after_startup(s, response) ==
    LET v == validate_pushover(get_token(s), s.user_key, response) IN
    [validation |-> v.outcome, restarted |-> TRUE, outcome |-> "returned"]

\* the attributes of an exception object that the handler of the API command
\* can read
ExceptionAttributes == {"args", "with_traceback", "__cause__", "__context__",
                        "__traceback__"}

\* the test notification's text
TestMessage == "pewpewpew!! OctoPrint works. "

\* on_api_command(command, data): the answer given to the caller, or the
\* exception that leaves the method
on_api_command(s, log, command, data, response) ==
    IF command # "test"
    THEN [posts |-> log, outcome |-> "returned",
          answer |-> [status |-> 400, success |-> FALSE]]
    ELSE LET api_key == IF Missing(data.api_key) THEN get_token(s)
                        ELSE data.api_key
             v == validate_pushover(api_key, data.user_key, response)
         IN IF v.outcome = "returned"
            THEN [posts |-> event_message(log, "test", TestMessage, <<>>,
                                          NoPriority),
                  outcome |-> "returned",
                  answer |-> [status |-> 200, success |-> TRUE]]
            ELSE IF "message" \in ExceptionAttributes
            THEN [posts |-> log, outcome |-> "returned",
                  answer |-> [status |-> 200, success |-> FALSE]]
            ELSE [posts |-> log, outcome |-> "AttributeError",
                  answer |-> [status |-> 500, success |-> FALSE]]

\* the settings found in the store: the shipped defaults, an own token
\* without a user key, or own credentials
ApiSettings ==
    {SettingsDefaults,
     [SettingsDefaults EXCEPT !.token = "own"],
     [SettingsDefaults EXCEPT !.token = "own", !.user_key = "user"]}

\* the data of a "test" command: both keys are present, either may be empty
ApiData == [api_key : {"", "own"}, user_key : {"", "user"}]

\* what requests.post gives back to validate_pushover: no connection, a
\* status that is not 200, or 200 with a body that is no JSON, no object, an
\* object without status, or an object with a status
ApiResponses ==
    {r \in Responses :
        \/ r.kind = "refused"
        \/ r.status \in {401, 500} /\ r.body.kind = "text"
        \/ r.status = 200 /\ r.body.kind \in {"text", "array"}
        \/ r.status = 200 /\ r.body.kind = "object"
           /\ DOMAIN r.body.fields \in {{"request"}, {"status"}}}

InitApi ==
    /\ settings \in ApiSettings
    /\ print_state = PrintStateInit
    /\ bed_sent = FALSE
    /\ e1_sent = FALSE
    /\ timer = FALSE
    /\ pool = <<>>
    /\ posts = <<>>
    /\ host_session = FALSE
    /\ now = 0
    /\ last = [op |-> "init", outcome |-> "returned"]
    /\ client = NoClient
    /\ host_progress = 0
    /\ ticks = <<>>

AfterStartup(response) ==
    /\ LET r == on_after_startup(settings, response) IN
        /\ timer' = IF r.restarted THEN restart_timer(settings) ELSE timer
        /\ last' = [op |-> "on_after_startup", response |-> response,
                    validation |-> r.validation, restarted |-> r.restarted,
                    outcome |-> r.outcome]
    /\ UNCHANGED <<ticks, settings, print_state, bed_sent, e1_sent, pool, posts,
                   host_session, now, client, host_progress>>

ApiCommand(command, data, response, answer) ==
    /\ Len(posts) < MaxPosts
    /\ LET r == on_api_command(settings, posts, command, data, response) IN
        /\ posts' = Observed(r.posts, Len(posts), [c \in {"test"} |-> answer])
        /\ last' = [op |-> "on_api_command", command |-> command,
                    data |-> data, response |-> response,
                    posted |-> Len(r.posts) - Len(posts),
                    success |-> r.answer.success, status |-> r.answer.status,
                    outcome |-> r.outcome]
    /\ UNCHANGED <<ticks, settings, print_state, bed_sent, e1_sent, timer, pool,
                   host_session, now, client, host_progress>>

NextApi ==
    \/ \E r \in ApiResponses : AfterStartup(r)
    \/ \E c \in {"test", "other"} : \E d \in ApiData : \E r \in ApiResponses :
          \E a \in Answers : ApiCommand(c, d, r, a)

SpecApi == InitApi /\ [][NextApi]_vars

(***************************************************************************)
(* The command-stream hook of plugin.py with the commands that capture     *)
(* into the command buffer, next to the handlers that read the buffer and  *)
(* the executor's worker.                                                  *)
(***************************************************************************)
\* the settings found in the store: the shipped defaults, or a user's own
\* credentials with the pause, filament and start-up notifications enabled
CommandSettings ==
    {SettingsDefaults,
     [SettingsDefaults EXCEPT
         !.token = "own", !.user_key = "user",
         !.priority = [e \in EventNames |->
                          IF e \in {"PrintPaused", "FilamentChange", "Startup"}
                          THEN PyInt(1) ELSE PriorityDefaults[e]]]}

\* the commands reported to the hook: with and without a code, with text
\* after the code that is missing, empty, blank or not blank
GcodeInputs ==
    {[gcode |-> "G1", cmd |-> <<"G", "1">>],
     [gcode |-> "G28", cmd |-> <<"G", "2", "8">>],
     [gcode |-> "None", cmd |-> <<"@">>],
     [gcode |-> "M600", cmd |-> <<"M", "6", "0", "0">>],
     [gcode |-> "M70", cmd |-> <<"M", "7", "0">>],
     [gcode |-> "M70", cmd |-> <<"M", "7", "0", " ", "a">>],
     [gcode |-> "M117", cmd |-> <<"M", "1", "1", "7">>],
     [gcode |-> "M117", cmd |-> <<"M", "1", "1", "7", " ">>],
     [gcode |-> "M117", cmd |-> <<"M", "1", "1", "7", " ", "b">>]}

InitCommands ==
    /\ settings \in CommandSettings
    /\ print_state = PrintStateInit
    /\ bed_sent = FALSE
    /\ e1_sent = FALSE
    /\ timer = FALSE
    /\ pool = <<>>
    /\ posts = <<>>
    /\ host_session = FALSE
    /\ now = 0
    /\ last = [op |-> "init", outcome |-> "returned"]
    /\ client = NoClient
    /\ host_progress = 0
    /\ ticks = <<>>

\* sent_gcode is called with a command; the buffer before the call is kept
\* for comparison
SentCommand(c) ==
    /\ Len(pool) < MaxPool
    /\ LET r == sent_gcode(settings, print_state, pool, posts, now, c.cmd,
                           c.gcode)
       IN /\ print_state' = r.print_state
          /\ pool' = r.pool
          /\ posts' = r.posts
          /\ last' = [op |-> "sent_gcode", gcode |-> c.gcode, cmd |-> c.cmd,
                      before |-> print_state.m70_cmd,
                      submitted |-> Len(r.pool) - Len(pool),
                      outcome |-> r.outcome]
    /\ UNCHANGED <<ticks, settings, bed_sent, e1_sent, timer, host_session, now,
                   client, host_progress>>

NextCommands ==
    \/ \E c \in GcodeInputs : SentCommand(c)
    \/ \E e \in {"PrintPaused", "FilamentChange", "PrintDone", "Startup"} :
          \E p \in Payloads(e) : CallHandler(e, p)
    \/ \E i \in 1..MaxPool : Worker(i)

SpecCommands == InitCommands /\ [][NextCommands]_vars

(***************************************************************************)
(* The threads of plugin.py side by side: the host's callbacks, the        *)
(* RepeatedTimer that runs temp_check and the executor's worker.           *)
(***************************************************************************)
\* the calls the host makes on its callback threads, by the name kept in last
CallbackOps == {"on_event", "on_after_startup", "sent_gcode", "handler"}

\* the call the RepeatedTimer makes on its own thread
TimerOps == {"temp_check"}

\* the call a thread of the executor makes
WorkerOps == {"worker"}

NextThreads ==
    \/ OnAfterStartup
    \/ \E e \in {"PrintDone", "ZChange", "Connected"} :
          \E p \in Payloads(e) : OnEvent(e, p)
    \/ \E e \in {"Startup", "Shutdown"} : CallHandler(e, NoPayload)
    \/ \E c \in CmdInputs : SentGcode(c)
    \/ \E o \in BOOLEAN : \E bt, et \in Temps : \E bg, eg \in Targets :
          TempCheck(o, bt, bg, et, eg)
    \/ \E i \in 1..MaxPool : Worker(i)

SpecThreads == InitCommands /\ [][NextThreads]_vars

(***************************************************************************)
(* Properties.                                                             *)
(***************************************************************************)
\* a configured priority that is not zero
NonZero(priority) == priority # PyNone /\ PyIntOf(priority) # 0

\* a priority that is zero in any representation, or unset
ZeroOrUnset(priority) == priority = PyNone \/ PyIntOf(priority) = 0

CredentialsSet == settings.token # "None" /\ settings.user_key # "None"

Count(log, cause) == Cardinality({i \in DOMAIN log : log[i].cause = cause})

\* C1: a routed event delivered to on_event with credentials configured and
\* a non-zero priority leaves exactly one send task for the worker pool,
\* carrying the event's message template and the configured priority.
C1_RoutedEventDispatched ==
    (/\ last.op = "on_event"
     /\ last.event \in {"Startup", "Shutdown", "PrintDone", "PrintFailed",
                        "FilamentChange", "PrintPaused", "Waiting"}
     /\ CredentialsSet
     /\ NonZero(settings.priority[last.event]))
    => /\ last.outcome = "returned"
       /\ last.submitted = 1
       /\ pool[Len(pool)].message.tmpl = Template(last.event)
       /\ pool[Len(pool)].priority = PyIntOf(settings.priority[last.event])

\* C2: a handler submits no task when the priority configured for its event
\* is zero (the integer 0 or the string "0") or unset.
C2_NoTaskWhenPriorityZero ==
    (last.op = "handler" /\ ZeroOrUnset(settings.priority[last.event]))
    => last.submitted = 0

\* C3: between two PrintStarted events the poll sends at most one
\* notification for the bed and at most one for the tool, however many
\* ticks find the target reached.
C3_TempOncePerSensor ==
    Count(posts, "bed") <= 1 /\ Count(posts, "tool0") <= 1

\* a tick that found both targets reached after both notifications went out
C3_Witness ==
    /\ last.op = "temp_check"
    /\ last.bed_reached /\ last.e1_reached
    /\ last.posted = 0
    /\ Count(posts, "bed") = 1 /\ Count(posts, "tool0") = 1

\* C4: once PrintStarted was delivered both temperature latches are false.
C4_PrintStartedClearsLatches ==
    (last.op = "on_event" /\ last.event = "PrintStarted")
    => (~bed_sent /\ ~e1_sent)

\* C5: is_printing is true exactly between a PrintStarted and the next
\* PrintDone or PrintFailed, and the PrintStarted step sets start_time,
\* empties the command buffer and sets first_layer.
C5_IsPrintingTracksSession ==
    /\ print_state.is_printing = host_session
    /\ (last.op = "on_event" /\ last.event = "PrintStarted")
       => /\ print_state.start_time # PyNone
          /\ print_state.m70_cmd = <<>>
          /\ print_state.first_layer

\* C6: inside a print session a ZChange with new >= 2 and old set leaves
\* first_layer false.
C6_FirstLayerCleared ==
    (/\ host_session
     /\ last.op = "on_event"
     /\ last.event = "ZChange"
     /\ last.payload.new >= 2
     /\ last.payload.old # PyNone)
    => ~print_state.first_layer

\* C8: an Error event outside a print session submits nothing; inside a
\* session, with credentials and a non-zero Error priority, it submits
\* exactly one notification with the payload's error text.
C8_ErrorNotifiedInSession ==
    (last.op = "on_event" /\ last.event = "Error")
    => IF host_session /\ CredentialsSet /\ NonZero(settings.priority["Error"])
       THEN /\ last.submitted = 1
            /\ pool[Len(pool)].message = [tmpl |-> Template("Error"),
                                          arg |-> <<last.payload.error>>]
       ELSE ~host_session => last.submitted = 0

\* C9: on_event returns normally for every event of its handler table.
C9_OnEventReturns ==
    (last.op = "on_event" /\ last.event \in Handlers)
    => last.outcome = "returned"

\* C10: an on_event call with a name outside the handler table returns and
\* changes neither the session state, nor a latch, nor the worker pool.
C10_UnknownEventIgnored ==
    [][(last'.op = "on_event" /\ last'.event \notin Handlers)
       => /\ last'.outcome = "returned"
          /\ print_state' = print_state
          /\ bed_sent' = bed_sent
          /\ e1_sent' = e1_sent
          /\ pool' = pool]_vars

\* an unknown event delivered after the session state and a latch changed
C10_Witness ==
    /\ last.op = "on_event"
    /\ last.event \notin Handlers
    /\ bed_sent
    /\ print_state.m70_cmd # <<>>
    /\ print_state.last_minute # PyInt(0)

\* the failure send_message and validate are expected to give for a response
\* that carries no usable body
Rejected(response) == response.kind = "http" /\ response.status \in 400..499

HasField(response, k) ==
    response.body.kind = "object" /\ k \in DOMAIN response.body.fields

\* C11: send_message classifies the outcome of its POST in this order:
\* transport failure, request rejected for 400..499, protocol failure for any
\* other status than 200, parse failure for a 200 body that is not JSON or
\* has no request field, and otherwise a MessageResponse with the request id
\* and the receipt (None when absent).
C11_SendMessageClassifies ==
    last.op = "send_message" =>
        LET r == last.response IN
        IF r.kind = "refused" THEN last.outcome = "request_fail"
        ELSE IF Rejected(r) THEN last.outcome = "request_reject"
        ELSE IF r.status # 200 THEN last.outcome = "status_code"
        ELSE IF ~HasField(r, "request") THEN last.outcome = "parse_fail"
        ELSE /\ last.outcome = "returned"
             /\ last.result.request = r.body.fields["request"]
             /\ last.result.receipt = IF HasField(r, "receipt")
                                      THEN r.body.fields["receipt"]
                                      ELSE PyNone

\* C12: send_message and validate both map status 401 to request rejected,
\* status 500 to the protocol failure, a refused connection to the transport
\* failure and a non-JSON body with status 200 to the parse failure.
C12_BothMapFailuresAlike ==
    last.op \in {"send_message", "validate"} =>
        LET r == last.response IN
        /\ r.kind = "refused" => last.outcome = "request_fail"
        /\ (r.kind = "http" /\ r.status = 401) => last.outcome = "request_reject"
        /\ (r.kind = "http" /\ r.status = 500) => last.outcome = "status_code"
        /\ (r.kind = "http" /\ r.status = 200 /\ r.body.kind = "text")
           => last.outcome = "parse_fail"

\* C13: the form data send_message posts has no priority field when the
\* priority is NORMAL (0) and has priority equal to the integer value of the
\* priority otherwise.
C13_PriorityFieldOnlyWhenNotNormal ==
    last.op = "send_message" =>
        IF last.priority = 0
        THEN "priority" \notin DOMAIN last.data
        ELSE "priority" \in DOMAIN last.data
             /\ last.data["priority"] = last.priority

\* a message of NORMAL priority was posted and accepted
C13_Witness ==
    /\ last.op = "send_message"
    /\ last.priority = 0
    /\ last.outcome = "returned"
    /\ DOMAIN last.data = {"message", "token", "user"}

\* C14: on a 200 response whose JSON body has a status field, validate
\* returns true exactly when the field equals the string "1", false for
\* every other value, and it changes nothing of the client.
C14_ValidateTrueIffStatusOne ==
    [][last'.op = "validate" =>
          /\ client' = client
          /\ (last'.response.kind = "http" /\ last'.response.status = 200
              /\ HasField(last'.response, "status"))
             => /\ last'.outcome = "returned"
                /\ last'.result =
                     (last'.response.body.fields["status"] = PyStr(1))]_vars

\* validate answered false for the integer 1
C14_Witness ==
    /\ last.op = "validate"
    /\ last.response.status = 200
    /\ HasField(last.response, "status")
    /\ last.response.body.fields["status"] = PyInt(1)
    /\ last.outcome = "returned"
    /\ last.result = FALSE

\* what a read of the elapsed minutes gives in the current state
Mins == get_mins_since_started(Self, now)

Delivered(event) == last.op = "on_event" /\ last.event = event

\* C15: minutes_since_started is unset in every state where is_printing is
\* false, and while is_printing stays true successive reads never decrease.
C15_MinutesUnsetWhenNotPrinting ==
    [][/\ ~print_state'.is_printing => Mins' = PyNone
       /\ (print_state.is_printing /\ print_state'.is_printing)
          => Mins'.v >= Mins.v]_vars

\* C15, as the code has it: the elapsed minutes stay unset until a
\* PrintStarted, are unset again after a PrintDone, are set while is_printing
\* is true and remain set after a PrintFailed although is_printing is false;
\* while is_printing stays true successive reads never decrease.
C15_MinutesUnsetUntilStartedAndAfterDone ==
    [][/\ (Mins = PyNone /\ ~Delivered("PrintStarted")') => Mins' = PyNone
       /\ Delivered("PrintDone")' => Mins' = PyNone
       /\ print_state'.is_printing => Mins' # PyNone
       /\ Delivered("PrintFailed")' => Mins' # PyNone
       /\ (print_state.is_printing /\ print_state'.is_printing)
          => Mins'.v >= Mins.v]_vars

\* a print failed after a minute: it is over and the minutes are still read
C15_Witness ==
    /\ Delivered("PrintFailed")
    /\ ~print_state.is_printing
    /\ Mins # PyNone
    /\ Mins.v >= 1

\* C16: is_printing is false whenever start_time is unset.
C16_PrintingImpliesStartTime ==
    print_state.is_printing => print_state.start_time # PyNone

\* a second print, started after the first one failed, reports progress
C16_Witness ==
    /\ print_state.is_printing
    /\ print_state.start_time # PyNone
    /\ print_state.start_time.v > 0
    /\ last.op = "on_print_progress"
    /\ print_state.last_progress > 0

\* a counter that did not go down: a number stays a number at least as large
NotDecreased(old, new) == old.t = "int" => (new.t = "int" /\ new.v >= old.v)

\* C17: during one print no sent_gcode or on_print_progress call lowers
\* last_minute or last_progress, and a counter that was advanced goes back to
\* 0 only in the PrintDone step.
C17_CountersMonotoneWithinPrint ==
    [][/\ (/\ last'.op \in {"sent_gcode", "on_print_progress"}
           /\ host_session /\ host_session')
          => /\ NotDecreased(print_state.last_minute, print_state'.last_minute)
             /\ print_state'.last_progress >= print_state.last_progress
       /\ (\/ /\ print_state.last_minute.t = "int"
              /\ print_state.last_minute.v > 0
              /\ print_state'.last_minute = PyInt(0)
           \/ /\ print_state.last_progress > 0
              /\ print_state'.last_progress = 0)
          => Delivered("PrintDone")']_vars

\* C20: no host callback (on_event, on_print_progress, sent_gcode) performs a
\* POST itself: every send is left to a background worker.
C20_NoPostOnCallbackThread ==
    last.op \in {"on_event", "on_print_progress", "sent_gcode"}
    => last.posted = 0

\* C18: on_print_done sets is_printing false, last_minute 0, last_progress 0
\* and start_time unset and leaves m70_cmd and first_layer; on_print_failed
\* sets is_printing false and leaves every other field.
C18_DoneResetsFailedKeeps ==
    [][/\ last'.op = "PrintState.on_print_done"
          => /\ print_state'.is_printing = FALSE
             /\ print_state'.last_minute = PyInt(0)
             /\ print_state'.last_progress = 0
             /\ print_state'.start_time = PyNone
             /\ print_state'.m70_cmd = print_state.m70_cmd
             /\ print_state'.first_layer = print_state.first_layer
       /\ last'.op = "PrintState.on_print_failed"
          => /\ print_state'.is_printing = FALSE
             /\ print_state'.start_time = print_state.start_time
             /\ print_state'.last_minute = print_state.last_minute
             /\ print_state'.last_progress = print_state.last_progress
             /\ print_state'.m70_cmd = print_state.m70_cmd
             /\ print_state'.first_layer = print_state.first_layer]_vars

\* a failed print whose timing fields, buffer and flag are all still set
C18_Witness ==
    /\ last.op = "PrintState.on_print_failed"
    /\ ~print_state.is_printing
    /\ print_state.start_time # PyNone
    /\ print_state.last_minute.v > 0
    /\ print_state.last_progress > 0
    /\ print_state.m70_cmd # <<>>
    /\ print_state.first_layer

\* C19: the notification a handler submits for its event E carries the
\* template and the priority stored under E, for E in Startup, Shutdown,
\* Error, PrintDone, PrintFailed, FilamentChange, PrintPaused and ZChange
\* (Error and ZChange notify only while printing).
C19_HandlerUsesOwnSettings ==
    (/\ last.op = "handler"
     /\ last.event \in {"Startup", "Shutdown", "Error", "PrintDone",
                        "PrintFailed", "FilamentChange", "PrintPaused",
                        "ZChange"}
     /\ last.event \in {"Error", "ZChange"} => print_state.is_printing
     /\ CredentialsSet
     /\ NonZero(settings.priority[last.event]))
    => /\ last.submitted = 1
       /\ pool[Len(pool)].message.tmpl = Template(last.event)
       /\ pool[Len(pool)].priority = PyIntOf(settings.priority[last.event])

\* the requests that credentials and a non-zero priority allow for an event
Enabled(event) == CredentialsSet /\ NonZero(settings.priority[event])

\* C21: a PrintPaused or FilamentChange event handled while the command
\* buffer holds X queues a notification whose text contains X; a later
\* capture by sent_gcode or a PrintDone leaves the queued text as it is, and
\* the worker's send posts the text of the task it took.
C21_QueuedTextIsAsOfHandling ==
    [][/\ (/\ last'.op = "handler"
           /\ last'.event \in {"PrintPaused", "FilamentChange"}
           /\ Enabled(last'.event))
          => /\ last'.submitted = 1
             /\ pool'[Len(pool')].message.arg = M70Arg(print_state)
       /\ (\/ last'.op = "sent_gcode"
           \/ last'.op = "handler" /\ last'.event = "PrintDone")
          => \A i \in DOMAIN pool : i \in DOMAIN pool' /\ pool'[i] = pool[i]
       /\ last'.op = "worker"
          => \E i \in DOMAIN pool :
                /\ Len(posts') = Len(posts) + 1
                /\ posts'[Len(posts')].arg = pool[i].message.arg]_vars

\* C23: a sent_gcode call with code M600 returns normally, and it handled
\* FilamentChange exactly once: one notification is submitted when the
\* credentials are configured and the FilamentChange priority is non-zero,
\* none otherwise.
C23_M600HandlesFilamentChange ==
    (last.op = "sent_gcode" /\ last.gcode = "M600")
    => /\ last.outcome = "returned"
       /\ IF Enabled("FilamentChange")
          THEN /\ last.submitted = 1
               /\ pool[Len(pool)].message.tmpl = Template("FilamentChange")
          ELSE last.submitted = 0

\* the text of a command after its first n characters
After(cmd, n) == [i \in 1..(Len(cmd) - n) |-> cmd[i + n]]

Blank(str) == \A i \in DOMAIN str : str[i] = " "

\* C24: after sent_gcode the command buffer is the text after the first 3
\* characters for code M70 (empty text included), the text after the first 4
\* characters for code M117 when that text is not blank, and what it was
\* before the call in every other case; it is never an earlier capture
\* followed by a later one.
C24_BufferHoldsLastCapture ==
    last.op = "sent_gcode" =>
        print_state.m70_cmd =
            CASE last.gcode = "M70" -> After(last.cmd, 3)
              [] last.gcode = "M117" /\ ~Blank(After(last.cmd, 4))
                    -> After(last.cmd, 4)
              [] OTHER -> last.before

\* an M117 text replaced the text an M70 had left in the buffer
C24_Witness ==
    /\ last.op = "sent_gcode"
    /\ last.gcode = "M117"
    /\ last.before = <<" ", "a">>
    /\ print_state.m70_cmd = <<" ", "b">>

\* C22: a sent_gcode call sends at most one Scheduled notification, and it
\* sends one only when the command has a code other than G1, the minutes it
\* read differ from last_minute before the call and are last_minute after
\* it, a print is running, the user has an own token, the Scheduled interval
\* N is not zero and the minutes are a positive multiple of N.
C22_ScheduledOnlyOnNewMultiple ==
    (last.op = "sent_gcode" /\ last.scheduled # 0)
    => /\ last.scheduled = 1
       /\ last.gcode \notin {"None", "G1"}
       /\ last.minutes # last.before
       /\ print_state.last_minute = last.minutes
       /\ print_state.is_printing
       /\ has_own_token(settings)
       /\ PyIntOf(settings.mod["Scheduled"]) # 0
       /\ last.minutes.t = "int"
       /\ last.minutes.v > 0
       /\ last.minutes.v % PyIntOf(settings.mod["Scheduled"]) = 0

\* with an interval of 2 the first minute passed unannounced and the second
\* minute was announced
C22_Witness ==
    /\ last.op = "sent_gcode"
    /\ last.scheduled = 1
    /\ PyIntOf(settings.mod["Scheduled"]) = 2
    /\ last.before = PyInt(1)
    /\ print_state.last_minute = PyInt(2)

\* the calls that end with restart_timer
Restarted == last.op \in {"on_after_startup", "on_settings_save"}

\* C25: after a call that ran restart_timer, the poll timer is active
\* exactly when the user has an own token and the TempReached priority is
\* not zero.  (The field timer holds one timer at most: restart_timer cancels
\* the timer it holds before it starts another.)
C25_TimerIffFeatureEnabled ==
    Restarted
    => (timer <=> (has_own_token(settings)
                   /\ NonZero(settings.priority["TempReached"])))

\* the POSTs of the poll for a sensor that failed
Failed(log, sensor) ==
    {i \in DOMAIN log : log[i].cause = sensor /\ log[i].answer = "failed"}

\* C26: the poll makes at most one POST per sensor between two PrintStarted
\* events, whether the POST failed or not, a tick makes at most one POST for
\* each sensor it found at its target, an event makes at most one POST, and
\* the latch of a sensor whose POST was made stays set.
C26_FailedSendNotRetried ==
    /\ \A c \in Sensors : Count(posts, c) <= 1
    /\ Count(posts, "bed") = 1 => bed_sent
    /\ Count(posts, "tool0") = 1 => e1_sent
    /\ last.op = "temp_check"
       => last.posted <= (IF last.bed_reached THEN 1 ELSE 0)
                         + (IF last.e1_reached THEN 1 ELSE 0)
    /\ last.op = "on_event" => last.posted <= 1

\* a tick found the bed at its target after the POST for the bed had failed,
\* and made no POST
C26_Witness ==
    /\ last.op = "temp_check"
    /\ last.bed_reached
    /\ last.posted = 0
    /\ Failed(posts, "bed") # {}
    /\ bed_sent

\* the validation of a "test" command cannot succeed: the user key is
\* missing, the service rejects the credentials or cannot be reached
ValidationFails(data, response) ==
    \/ data.user_key \in {"None", ""}
    \/ response.kind = "refused"
    \/ Rejected(response)

\* the service accepts the credentials
ValidationSucceeds(data, response) ==
    /\ data.user_key \notin {"None", ""}
    /\ response.kind = "http"
    /\ response.status = 200
    /\ HasField(response, "status")
    /\ response.body.fields["status"] = PyInt(1)

\* C27: the "test" command always returns an answer to its caller: success
\* true when the validation and the test send succeed, success false when
\* the validation fails; it never ends with an exception.
C27_TestCommandAnswers ==
    (last.op = "on_api_command" /\ last.command = "test")
    => /\ last.outcome = "returned"
       /\ ValidationFails(last.data, last.response) => ~last.success
       /\ (/\ ValidationSucceeds(last.data, last.response)
           /\ last.posted = 1
           /\ posts[Len(posts)].answer = "sent")
          => last.success

\* C28: on_after_startup returns to the host whatever the validation did,
\* and restart_timer has run: the timer is as restart_timer leaves it.
C28_StartupCatchesValidationFailure ==
    last.op = "on_after_startup"
    => /\ last.outcome = "returned"
       /\ last.restarted
       /\ timer = restart_timer(settings)

\* the validation failed on a status that is not 200 and the timer runs
C28_Witness ==
    /\ last.op = "on_after_startup"
    /\ last.validation = "ValueError"
    /\ last.response.kind = "http"
    /\ last.response.status = 500
    /\ timer

\* the fields of the session state kept in PrintState
SessionFields == print_state

\* the two temperature latch flags
Latches == <<bed_sent, e1_sent>>

\* C29: every step that changes is_printing, start_time, last_minute,
\* last_progress, the command buffer, first_layer or a temperature latch is
\* a call made on a host callback thread.
C29_SessionWrittenByCallbacksOnly ==
    [][(SessionFields' # SessionFields \/ Latches' # Latches)
       => last'.op \in CallbackOps]_vars

\* C29, as the code has it: the fields of PrintState are written on host
\* callback threads only; the two latch flags are set on the timer thread,
\* by temp_check, and by no other call; the worker writes none of them.
C29_LatchesWrittenByTimerThread ==
    [][/\ SessionFields' # SessionFields => last'.op \in CallbackOps
       /\ Latches' # Latches => last'.op \in TimerOps
       /\ last'.op \in WorkerOps
          => (SessionFields' = SessionFields /\ Latches' = Latches)]_vars

\* a poll tick set a latch after a callback had written the command buffer,
\* and the worker ran a task since
C29_Witness ==
    /\ last.op = "worker"
    /\ bed_sent
    /\ Count(posts, "bed") = 1
    /\ print_state.m70_cmd # <<>>

\* the positions of the Progress notifications among the POSTs of the print
ProgressPosts == {i \in DOMAIN posts : posts[i].cause = "Progress"}

\* C30: among the POSTs made since the last PrintStarted no two Progress
\* notifications carry the same percentage.
C30_NoPercentageTwice ==
    \A i, j \in ProgressPosts : posts[i].arg = posts[j].arg => i = j

\* C30, as the code has it: a Progress notification never carries the
\* percentage of the Progress notification sent before it in the same print,
\* and a report of the percentage last_progress holds sends nothing.
C30_NoPercentageTwiceInSuccession ==
    /\ \A i, j \in ProgressPosts :
          (i < j /\ \A k \in ProgressPosts : ~(i < k /\ k < j))
          => posts[i].arg # posts[j].arg
    /\ (last.op = "on_print_progress" /\ last.progress = last.before)
       => last.posted = 0

\* the percentage just notified was reported again and nothing was sent
C30_Witness ==
    /\ last.op = "on_print_progress"
    /\ print_state.is_printing
    /\ last.progress = last.before
    /\ last.progress > 0
    /\ last.posted = 0
    /\ \E i \in ProgressPosts : posts[i].arg = <<last.progress>>

\* C31: last_minute is an integer that is not negative after every call,
\* before the first print and after a print as well, and the call that
\* follows a PrintDone leaves it 0 unless a print starts.
C31_LastMinuteIsNonNegativeInteger ==
    [][/\ print_state'.last_minute.t = "int"
       /\ print_state'.last_minute.v >= 0
       /\ (Delivered("PrintDone") /\ ~Delivered("PrintStarted")')
          => print_state'.last_minute = PyInt(0)]_vars

\* C32: validate posts to the path /users/validate.json under the base URL
\* of the service (which ends in /1), with the form fields token and user,
\* and no other, set to the client's values.
C32_ValidatePostsToUsersValidate ==
    last.op = "validate"
    => /\ last.url = <<BASE_URL, "/users/validate.json">>
       /\ DOMAIN last.data = {"token", "user"}
       /\ last.data["token"] = client.token
       /\ last.data["user"] = client.user

\* the failures that are raised as PushoverError
PushoverErrors == {"request_fail", "request_reject", "status_code",
                   "parse_fail"}

\* C37: for every status and every body, validate and send_message return a
\* value or raise PushoverError; no other exception leaves the call.
C37_ClientRaisesOnlyPushoverError ==
    last.op \in {"validate", "send_message"}
    => last.outcome \in {"returned"} \cup PushoverErrors

\* C35: inside a print, with an own token and a Progress interval M that is
\* not zero, the first report of a positive percentage divisible by M sends
\* a Progress notification (the host reports each percentage once, as it
\* grows).
C35_FirstReportIsNotified ==
    (/\ last.op = "on_print_progress"
     /\ host_session
     /\ has_own_token(settings)
     /\ PyIntOf(settings.mod["Progress"]) # 0
     /\ host_progress > 0
     /\ host_progress % PyIntOf(settings.mod["Progress"]) = 0)
    => last.posted = 1


\* C36: every Progress notification carries the priority stored for the
\* Progress event, whatever the priorities stored for the other events
C36_ProgressCarriesItsOwnPriority ==
    \A i \in ProgressPosts : posts[i].priority = settings.priority["Progress"]


\* the ZChange handler has just produced a message
Produced == last.op = "on_event" /\ last.event = "ZChange" /\ last.produced

\* C33: for any sequence of events delivered to on_event of __init__.py, the
\* ZChange handler produces a message only while printing (so never before
\* the first PrintStarted), only for a ZChange whose old height is set and
\* whose new height is at least 2, and at most once between two consecutive
\* PrintStarted events: it produces one only while first_layer is set, which
\* it then clears and which only PrintStarted sets again
C33_ZChangeOncePerPrint ==
    [][/\ Produced'
          => /\ print_state.is_printing
             /\ \E i \in DOMAIN posts' : posts'[i].cause = "PrintStarted"
             /\ last'.payload.old # PyNone
             /\ last'.payload.new >= 2
             /\ print_state.first_layer
             /\ ~print_state'.first_layer
       /\ (~print_state.first_layer /\ print_state'.first_layer)
          => last'.event = "PrintStarted"
       /\ Count(posts', "ZChange") <= 1]_vars

\* a second qualifying ZChange of the same print produced no message
C33_Witness ==
    /\ last.op = "on_event"
    /\ last.event = "ZChange"
    /\ last.printing
    /\ last.payload.old # PyNone
    /\ last.payload.new >= 2
    /\ ~last.produced
    /\ Count(posts, "ZChange") = 1


\* C34: also when restart_timer cancels the timer while one temp_check is
\* running and the new timer runs its first temp_check at once, each sensor
\* is notified at most once in a print
C34_OverlappingTicksNotifyOnce ==
    print_state.is_printing
    => \A sensor \in Sensors : Count(posts, sensor) <= 1

====
